---- MODULE Spec2Model ----
(***************************************************************************)
(* A model of src/main.py: the persistent store (class Database), the      *)
(* membership verifier (check_user_in_channel, check_membership), the      *)
(* delivery gate (start, check_join), the admin commands and the delayed   *)
(* message deletion (delete_job).                                          *)
(*                                                                         *)
(* Representation choices                                                  *)
(*  - a TEXT id is a sequence of decimal digits (<<1,0>> is "10"); str()   *)
(*    and CAST(.. AS INTEGER) are computed on that sequence;               *)
(*  - a file name is the sequence of its '.'-separated components;         *)
(*  - a timestamp is a number of seconds; SQLite compares the fixed-width  *)
(*    'YYYY-MM-DD HH:MM:SS' texts, which orders them as the seconds do;    *)
(*  - an Optional value is <<>> (None) or <<v>>.                           *)
(***************************************************************************)
EXTENDS Integers, Sequences, FiniteSets, TLC

VARIABLES
    files,      \* table files: id -> row
    cache,      \* table membership_cache: <<user_id, channel>> -> row
    now,        \* the clock, in seconds
    db_lock,    \* threading.Lock: the holder, or NoThread
    thr,        \* threads calling Database.save_file directly
    slot,       \* the coroutines in flight (handlers, verifier calls)
    jobs,       \* the job queue: armed delete_job jobs
    msgseq,     \* the platform's message-id counter
    job_queue,  \* whether context.job_queue is there (it is None without the extra)
    hist        \* history of the calls made (observation only)

vars == <<files, cache, now, db_lock, thr, slot, jobs, msgseq, job_queue, hist>>

----------------------------------------------------------------------------
(* Bounds of the model *)

MaxSaves == 3
MaxAccess == 2
MaxTime == 600
MaxCacheTime == 450
MaxStoreTime == 86400
MaxRetentionTime == 172800
MaxCleanupTime == 172800
MaxUpdates == 3

(* Program constants *)

DELETE_AFTER == 600
MAX_STORED_FILES == 1000
AUTO_CLEANUP_DAYS == 0
CACHE_MINUTES == 5

ADMIN_ID == 9
CHANNEL_1 == "ch1"
CHANNEL_2 == "ch2"
Channels == <<CHANNEL_1, CHANNEL_2>>

NoneV == <<>>
Some(v) == <<v>>
IsNone(o) == o = <<>>
Val(o) == o[1]

----------------------------------------------------------------------------
(* Text and number conversions *)

Digits == 0..9

RECURSIVE Str(_)
Str(n) ==
    IF n < 10 THEN <<n>> ELSE Append(Str(n \div 10), n % 10)

\* CAST(text AS INTEGER): the value of the longest prefix of digits, 0 if none.
RECURSIVE CastAcc(_, _)
CastAcc(s, acc) ==
    IF s = <<>> \/ Head(s) \notin Digits THEN acc
    ELSE CastAcc(Tail(s), 10 * acc + Head(s))

CastInt(s) == CastAcc(s, 0)

SetMax(S) == CHOOSE m \in S : \A x \in S : x <= m

DictGet(d, k, default) == IF k \in DOMAIN d THEN d[k] ELSE default

----------------------------------------------------------------------------
(* class Database: the files table *)

\* SELECT COALESCE(MAX(CAST(id AS INTEGER)), 0) FROM files
MaxId(f) ==
    IF DOMAIN f = {} THEN 0 ELSE SetMax({CastInt(id) : id \in DOMAIN f})

\* Variant of NewId: an empty table counts as holding id 1.
NewIdBase1(f) == Str((IF DOMAIN f = {} THEN 1 ELSE MaxId(f)) + 1)

\* new_id = str(max_id + 1)
NewId(f) == Str(MaxId(f) + 1)

\* 1 if file_info.get('is_video', False) else 0
IntOfBool(b) == IF b THEN 1 ELSE 0

\* bool(row[3])
BoolOfInt(i) == i # 0

\* the row of the INSERT of save_file; timestamp takes its DEFAULT
NewRow(file_id, info, t) ==
    [ file_id      |-> file_id,
      file_name    |-> DictGet(info, "file_name", <<"">>),
      mime_type    |-> DictGet(info, "mime_type", ""),
      is_video     |-> IntOfBool(DictGet(info, "is_video", FALSE)),
      file_size    |-> DictGet(info, "size", 0),
      timestamp    |-> t,
      access_count |-> 0 ]

\* INSERT INTO files: id is the PRIMARY KEY
InsertFile(f, id, row) ==
    IF id \in DOMAIN f
    THEN [ok |-> FALSE, files |-> f]
    ELSE [ok |-> TRUE,
          files |-> [k \in DOMAIN f \cup {id} |-> IF k = id THEN row ELSE f[k]]]

\* Database.save_file run without interruption
SaveFile(f, file_id, info, t) ==
    LET id == NewId(f)
        ins == InsertFile(f, id, NewRow(file_id, info, t))
    IN  [ok |-> ins.ok, files |-> ins.files, ret |-> id]

\* Variant of GetFileInfo: the access_count read before the UPDATE is returned.
GetFileInfoStale(row) ==
    [ file_id      |-> row.file_id,
      file_name    |-> row.file_name,
      mime_type    |-> row.mime_type,
      is_video     |-> BoolOfInt(row.is_video),
      size         |-> row.file_size,
      timestamp    |-> row.timestamp,
      access_count |-> row.access_count ]

\* the dict get_file returns for the row it SELECTed
GetFileInfo(row) ==
    [ file_id      |-> row.file_id,
      file_name    |-> row.file_name,
      mime_type    |-> row.mime_type,
      is_video     |-> BoolOfInt(row.is_video),
      size         |-> row.file_size,
      timestamp    |-> row.timestamp,
      access_count |-> row.access_count + 1 ]

\* Variant of BumpAccess: the lookup counts twice.
BumpAccessTwice(f, key) ==
    [k \in DOMAIN f |->
        IF k = key THEN [f[k] EXCEPT !.access_count = @ + 2] ELSE f[k]]

\* UPDATE files SET access_count = access_count + 1 WHERE id = ?
BumpAccess(f, key) ==
    [k \in DOMAIN f |->
        IF k = key THEN [f[k] EXCEPT !.access_count = @ + 1] ELSE f[k]]

\* Variant of GetFile: the lookup leaves access_count alone.
GetFileNoUpdate(f, key) ==
    IF key \in DOMAIN f
    THEN [files |-> f, ret |-> Some(GetFileInfo(f[key]))]
    ELSE [files |-> f, ret |-> NoneV]

\* Database.get_file run without interruption
GetFile(f, key) ==
    IF key \in DOMAIN f
    THEN [files |-> BumpAccess(f, key), ret |-> Some(GetFileInfo(f[key]))]
    ELSE [files |-> f, ret |-> NoneV]

\* Variant of DeleteFile: ids are compared as integers.
DeleteFileByNumber(f, key) ==
    [files |-> [k \in {x \in DOMAIN f : CastInt(x) # CastInt(key)} |-> f[k]],
     ret |-> \E x \in DOMAIN f : CastInt(x) = CastInt(key)]

\* Database.delete_file
DeleteFile(f, key) ==
    [files |-> [k \in DOMAIN f \ {key} |-> f[k]], ret |-> key \in DOMAIN f]

\* Variant of RetentionOff: only a negative policy turns the cleanup off.
RetentionOffNegative(days) == days < 0

\* if AUTO_CLEANUP_DAYS <= 0: return
RetentionOff(days) == days <= 0

\* datetime('now', '-N days'), in seconds
DaySeconds == 86400

\* DELETE FROM files WHERE timestamp < datetime('now', '-N days')
DropOlder(f, days, t) ==
    [k \in {x \in DOMAIN f : ~(f[x].timestamp < t - days * DaySeconds)} |-> f[k]]

\* Variant of KeepNewest: ORDER BY timestamp ASC.
KeepOldest(f, n) ==
    { [k \in K |-> f[k]] :
        K \in { S \in SUBSET DOMAIN f :
                  /\ Cardinality(S) = (IF Cardinality(DOMAIN f) < n
                                       THEN Cardinality(DOMAIN f) ELSE n)
                  /\ \A k \in S : \A x \in DOMAIN f \ S :
                        f[k].timestamp <= f[x].timestamp } }

\* DELETE FROM files WHERE id NOT IN (SELECT id FROM files ORDER BY timestamp
\* DESC LIMIT n): the tables that can be left; rows of equal timestamp come in
\* an order the query does not fix
KeepNewest(f, n) ==
    { [k \in K |-> f[k]] :
        K \in { S \in SUBSET DOMAIN f :
                  /\ Cardinality(S) = (IF Cardinality(DOMAIN f) < n
                                       THEN Cardinality(DOMAIN f) ELSE n)
                  /\ \A k \in S : \A x \in DOMAIN f \ S :
                        f[k].timestamp >= f[x].timestamp } }

\* Database.cleanup_old_files under the policy (days, n): the tables it can
\* leave
CleanupOldFiles(f, days, n, t) ==
    IF RetentionOff(days) THEN {f} ELSE KeepNewest(DropOlder(f, days, t), n)

\* Database.get_file_count
GetFileCount(f) == Cardinality(DOMAIN f)

----------------------------------------------------------------------------
(* class Database: the membership_cache table *)

\* INSERT OR REPLACE INTO membership_cache ... CURRENT_TIMESTAMP
CacheMembership(c, user_id, channel, is_member, t) ==
    [k \in DOMAIN c \cup {<<user_id, channel>>} |->
        IF k = <<user_id, channel>>
        THEN [is_member |-> IntOfBool(is_member), timestamp |-> t]
        ELSE c[k]]

\* Variant of StillValid: the window's end is counted as inside it.
StillValidInclusive(ts, t) == ts >= t - CACHE_MINUTES * 60

\* timestamp > datetime('now', '-5 minutes')
StillValid(ts, t) == ts > t - CACHE_MINUTES * 60

\* Database.get_cached_membership
GetCachedMembership(c, user_id, channel, t) ==
    IF /\ <<user_id, channel>> \in DOMAIN c
       /\ StillValid(c[<<user_id, channel>>].timestamp, t)
    THEN Some(BoolOfInt(c[<<user_id, channel>>].is_member))
    ELSE NoneV

\* Database.clear_membership_cache: "if user_id:" is false for None and for 0
ClearMembershipCache(c, user_opt) ==
    IF ~IsNone(user_opt) /\ Val(user_opt) # 0
    THEN [k \in {x \in DOMAIN c : x[1] # Val(user_opt)} |-> c[k]]
    ELSE <<>>

----------------------------------------------------------------------------
(* The initial state: the tables as init_db creates them, nothing in flight *)

NoThread == 0
Threads == {1, 2}
Slots == {1, 2}

IdleThread == [pc |-> "idle"]

\* a coroutine slot: the handler running in it, where it is suspended, and its
\* local variables
IdleSlot ==
    [ pc      |-> "idle",            \* the await it is suspended at
      h       |-> "-",               \* the handler
      user    |-> 0,                 \* user_id
      force   |-> FALSE,             \* force_check
      ch      |-> 0,                 \* the channel being checked (1, 2)
      res     |-> <<FALSE, FALSE>>,  \* result["channel1"], result["channel2"]
      missing |-> <<>>,              \* result["missing_channels"]
      all     |-> FALSE,             \* result["all_joined"]
      how     |-> <<"-", "-">>,      \* how each channel was settled: cache, auth
      q       |-> <<0, 0>>,          \* get_chat_member calls made, per channel
      ans     |-> <<NoneV, NoneV>>,  \* what the authority answered, per channel
      cleared |-> <<>>,              \* channel -> the row the call's clear removed
      files0  |-> <<>>,              \* the table files when the handler was entered
      data    |-> <<>>,              \* query.data, split at "|"
      key     |-> NoneV,             \* the file key of the request
      file    |-> NoneV,             \* file_info, as get_file returned it
      kind    |-> "-",               \* the send call made: video, document
      sent    |-> NoneV,             \* sent.message_id
      armed   |-> FALSE,             \* run_once(delete_job, ...) was called
      args    |-> NoneV,             \* context.args[0] of an admin command
      out     |-> "-" ]              \* the text shown to the user

NoHist ==
    [ op      |-> "-",      \* the last call made
      arg     |-> <<>>,     \* its arguments
      ret     |-> <<>>,     \* what it returned
      before  |-> {},       \* save_file: the ids present before the call
      issued  |-> <<>>,     \* ids save_file returned since the last removal
      ever    |-> <<>>,     \* ids save_file returned, all of them
      saved   |-> <<>>,     \* id -> <<file_id, file_info>> of its save_file
      gets    |-> <<>>,     \* id -> successful get_file calls since then
      written |-> <<>>,     \* <<user, channel>> -> is_member last cached
      deletes |-> <<>>,     \* <<chat_id, message_id>> -> delete_message calls made
      sends   |-> <<>>,     \* id -> sends that returned a message since its save_file
      removed |-> {},       \* ids delete_file returned True for, not saved again since
      fired   |-> <<>>,     \* <<chat_id, message_id>> -> removed, when its job fired
      limit   |-> MAX_STORED_FILES, \* cleanup_old_files: the maximum of rows it ran with
      aged    |-> {},       \* cleanup_old_files: the ids its first DELETE removed
      served  |-> FALSE,    \* flips with every request the status server answers
      status  |-> <<>>,     \* the last answer of the status server
      updates |-> 0 ]       \* updates handed to the handlers

Init ==
    /\ files = <<>>
    /\ cache = <<>>
    /\ now = 0
    /\ db_lock = NoThread
    /\ thr = [t \in Threads |-> IdleThread]
    /\ slot = [s \in Slots |-> IdleSlot]
    /\ jobs = {}
    /\ msgseq = 0
    /\ job_queue = TRUE
    /\ hist = NoHist

\* time passes, up to the horizon h
Tick(d, h) ==
    /\ now + d <= h
    /\ now' = now + d
    /\ UNCHANGED <<files, cache, db_lock, thr, slot, jobs, msgseq, job_queue, hist>>

Without(f, k) == [x \in DOMAIN f \ {k} |-> f[x]]

Ext(f, k, v) == [x \in DOMAIN f \cup {k} |-> IF x = k THEN v ELSE f[x]]

----------------------------------------------------------------------------
(* SpecStore: the files table called by one caller, one call at a time *)

\* the save_file calls made: <<file_id, file_info>>; the second dict lacks keys
SaveInputs ==
    { <<"A", [file_name |-> <<"a", "mp4">>, mime_type |-> "video/mp4",
             is_video |-> TRUE, size |-> 5]>>,
      <<"B", [file_name |-> <<"n">>]>> }

\* the keys callers present: "1", "2", and "01", which is no id save_file makes
KeyInputs == {<<1>>, <<2>>, <<0, 1>>}

StoreSave(ref, info) ==
    /\ Len(hist.ever) < MaxSaves
    /\ LET r == SaveFile(files, ref, info, now)
       IN  /\ files' = r.files
           /\ hist' = IF r.ok
                THEN [hist EXCEPT !.op = "save_file", !.arg = <<ref, info>>,
                        !.ret = Some(r.ret), !.before = DOMAIN files,
                        !.issued = Append(@, r.ret), !.ever = Append(@, r.ret),
                        !.saved = Ext(@, r.ret, <<ref, info>>),
                        !.gets = Ext(@, r.ret, 0)]
                ELSE [hist EXCEPT !.op = "save_file raised",
                        !.arg = <<ref, info>>, !.ret = NoneV,
                        !.before = DOMAIN files]
    /\ UNCHANGED <<cache, now, db_lock, thr, slot, jobs, msgseq, job_queue>>

StoreGet(key) ==
    /\ key \in DOMAIN files => files[key].access_count < MaxAccess
    /\ LET r == GetFile(files, key)
       IN  /\ files' = r.files
           /\ hist' = [hist EXCEPT !.op = "get_file", !.arg = key, !.ret = r.ret,
                        !.gets = IF key \in DOMAIN files /\ key \in DOMAIN @
                                 THEN [@ EXCEPT ![key] = @ + 1] ELSE @]
    /\ UNCHANGED <<cache, now, db_lock, thr, slot, jobs, msgseq, job_queue>>

StoreDelete(key) ==
    /\ LET r == DeleteFile(files, key)
       IN  /\ files' = r.files
           /\ hist' = [hist EXCEPT !.op = "delete_file", !.arg = key,
                        !.ret = Some(r.ret),
                        !.issued = IF r.ret THEN <<>> ELSE @]
    /\ UNCHANGED <<cache, now, db_lock, thr, slot, jobs, msgseq, job_queue>>

\* the retention policy as configured, and a negative one
DisabledPolicies == {AUTO_CLEANUP_DAYS, -1}
StoreTicks == {DaySeconds}

StoreCleanup(days, n) ==
    /\ \E f2 \in CleanupOldFiles(files, days, n, now) :
          /\ files' = f2
          /\ hist' = [hist EXCEPT !.op = "cleanup_old_files", !.arg = days,
                        !.ret = NoneV, !.before = DOMAIN files,
                        !.limit = n,
                        !.aged = IF RetentionOff(days) THEN {}
                                 ELSE DOMAIN files \ DOMAIN DropOlder(files, days, now),
                        !.issued = IF DOMAIN f2 = DOMAIN files THEN @ ELSE <<>>]
    /\ UNCHANGED <<cache, now, db_lock, thr, slot, jobs, msgseq, job_queue>>

NextStore ==
    \/ \E in \in SaveInputs : StoreSave(in[1], in[2])
    \/ \E key \in KeyInputs : StoreGet(key)
    \/ \E key \in KeyInputs : StoreDelete(key)
    \/ \E days \in DisabledPolicies : StoreCleanup(days, MAX_STORED_FILES)
    \/ \E d \in StoreTicks : Tick(d, MaxStoreTime)

SpecStore == Init /\ [][NextStore]_vars

----------------------------------------------------------------------------
(* SpecRetention: cleanup_old_files under an enabled policy, on rows saved *)
(* days apart                                                              *)

\* a retention of one day, and a table limited to one row or to the default
EnabledPolicies == {1}
Limits == {MAX_STORED_FILES, 1}
RetentionSaveInputs == { <<"B", [file_name |-> <<"n">>]>> }
RetentionKeyInputs == {<<1>>, <<2>>}

NextRetention ==
    \/ \E in \in RetentionSaveInputs : StoreSave(in[1], in[2])
    \/ \E key \in RetentionKeyInputs : StoreGet(key)
    \/ \E days \in EnabledPolicies, n \in Limits : StoreCleanup(days, n)
    \/ \E d \in StoreTicks : Tick(d, MaxRetentionTime)

SpecRetention == Init /\ [][NextRetention]_vars

----------------------------------------------------------------------------
(* SpecThreads: Database.save_file called from several threads, statement  *)
(* by statement                                                            *)

\* Variant of CanAcquire: save_file without "with db_lock".
CanAcquireUnlocked(l) == TRUE

\* with db_lock: threading.Lock lets one thread in
CanAcquire(l) == l = NoThread

InSaveFile(t) == thr[t].pc \in {"select", "insert", "return", "raise", "error"}

ThreadCall(t, in) ==
    /\ thr[t].pc = "idle"
    /\ Len(hist.ever) + Cardinality({u \in Threads : thr[u].pc # "idle"}) < MaxSaves
    /\ thr' = [thr EXCEPT ![t] = [pc |-> "lock", in |-> in]]
    /\ UNCHANGED <<files, cache, now, db_lock, slot, jobs, msgseq, job_queue, hist>>

ThreadAcquire(t) ==
    /\ thr[t].pc = "lock"
    /\ CanAcquire(db_lock)
    /\ db_lock' = t
    /\ thr' = [thr EXCEPT ![t].pc = "select"]
    /\ UNCHANGED <<files, cache, now, slot, jobs, msgseq, job_queue, hist>>

\* the SELECT of the maximum, and new_id
ThreadSelect(t) ==
    /\ thr[t].pc = "select"
    /\ thr' = [thr EXCEPT ![t] =
            [pc |-> "insert", in |-> thr[t].in, max_id |-> MaxId(files),
             new_id |-> NewId(files)]]
    /\ UNCHANGED <<files, cache, now, db_lock, slot, jobs, msgseq, job_queue, hist>>

\* the INSERT and conn.commit(); a taken id raises sqlite3.IntegrityError
ThreadInsert(t) ==
    /\ thr[t].pc = "insert"
    /\ LET ins == InsertFile(files, thr[t].new_id,
                             NewRow(thr[t].in[1], thr[t].in[2], now))
       IN  /\ files' = ins.files
           /\ thr' = [thr EXCEPT ![t].pc = IF ins.ok THEN "return" ELSE "raise"]
    /\ UNCHANGED <<cache, now, db_lock, slot, jobs, msgseq, job_queue, hist>>

\* a statement of the transaction raises sqlite3.Error (the database is locked
\* or cannot be written): nothing is committed
ThreadFail(t) ==
    /\ thr[t].pc \in {"select", "insert"}
    /\ thr' = [thr EXCEPT ![t] = [pc |-> "error", in |-> thr[t].in]]
    /\ UNCHANGED <<files, cache, now, db_lock, slot, jobs, msgseq, job_queue, hist>>

\* what save_file leaves in hist when it is left
SaveOutcome(t) ==
    IF thr[t].pc = "return"
    THEN [hist EXCEPT !.op = "save_file", !.ret = Some(thr[t].new_id),
             !.ever = Append(@, thr[t].new_id),
             !.saved = Ext(@, thr[t].new_id, thr[t].in)]
    ELSE IF thr[t].pc = "raise"
    THEN [hist EXCEPT !.op = "save_file raised", !.ret = NoneV]
    ELSE [hist EXCEPT !.op = "save_file failed", !.ret = NoneV]

\* Variant of ThreadReturn: an exception leaves save_file without releasing
\* db_lock.
ThreadReturnHolding(t) ==
    /\ thr[t].pc \in {"return", "raise", "error"}
    /\ db_lock' = IF thr[t].pc = "return" THEN NoThread ELSE db_lock
    /\ thr' = [thr EXCEPT ![t] = IdleThread]
    /\ hist' = SaveOutcome(t)
    /\ UNCHANGED <<files, cache, now, slot, jobs, msgseq, job_queue>>

\* leaving the with blocks: the lock is released, the id returned (or the
\* error raised)
ThreadReturn(t) ==
    /\ thr[t].pc \in {"return", "raise", "error"}
    /\ db_lock' = NoThread
    /\ thr' = [thr EXCEPT ![t] = IdleThread]
    /\ hist' = SaveOutcome(t)
    /\ UNCHANGED <<files, cache, now, slot, jobs, msgseq, job_queue>>

InGetFile(t) == thr[t].pc \in {"get_select", "get_update", "get_return"}

\* get_file(key) is called: it takes no lock
ThreadGetCall(t, key) ==
    /\ thr[t].pc = "idle"
    /\ key \in DOMAIN files =>
          files[key].access_count
            + Cardinality({u \in Threads : thr[u].pc \in {"get_select", "get_update"}})
            < MaxAccess
    /\ thr' = [thr EXCEPT ![t] = [pc |-> "get_select", key |-> key]]
    /\ UNCHANGED <<files, cache, now, db_lock, slot, jobs, msgseq, job_queue, hist>>

\* the SELECT of the row, and cursor.fetchone()
ThreadGetSelect(t) ==
    /\ thr[t].pc = "get_select"
    /\ LET key == thr[t].key
       IN  thr' = [thr EXCEPT ![t] =
                IF key \in DOMAIN files
                THEN [pc |-> "get_update", key |-> key, row |-> files[key]]
                ELSE [pc |-> "get_return", key |-> key, ret |-> NoneV,
                      stored |-> NoneV]]
    /\ UNCHANGED <<files, cache, now, db_lock, slot, jobs, msgseq, job_queue, hist>>

\* the UPDATE and conn.commit(); the dict is built from the row SELECTed.
\* stored is the access_count of the table right after this UPDATE.
ThreadGetUpdate(t) ==
    /\ thr[t].pc = "get_update"
    /\ LET key == thr[t].key
           f2 == BumpAccess(files, key)
       IN  /\ files' = f2
           /\ thr' = [thr EXCEPT ![t] =
                    [pc |-> "get_return", key |-> key,
                     ret |-> Some(GetFileInfo(thr[t].row)),
                     stored |-> IF key \in DOMAIN f2
                                THEN Some(f2[key].access_count) ELSE NoneV]]
           /\ hist' = [hist EXCEPT !.gets = Ext(@, key, DictGet(@, key, 0) + 1)]
    /\ UNCHANGED <<cache, now, db_lock, slot, jobs, msgseq, job_queue>>

\* get_file returns
ThreadGetReturn(t) ==
    /\ thr[t].pc = "get_return"
    /\ thr' = [thr EXCEPT ![t] = IdleThread]
    /\ hist' = [hist EXCEPT !.op = "get_file", !.arg = thr[t].key,
                             !.ret = thr[t].ret]
    /\ UNCHANGED <<files, cache, now, db_lock, slot, jobs, msgseq, job_queue>>

NextThreads ==
    \/ \E t \in Threads, in \in SaveInputs : ThreadCall(t, in)
    \/ \E t \in Threads : ThreadAcquire(t)
    \/ \E t \in Threads : ThreadSelect(t)
    \/ \E t \in Threads : ThreadInsert(t)
    \/ \E t \in Threads : ThreadFail(t)
    \/ \E t \in Threads : ThreadReturn(t)
    \/ \E t \in Threads, key \in KeyInputs : ThreadGetCall(t, key)
    \/ \E t \in Threads : ThreadGetSelect(t)
    \/ \E t \in Threads : ThreadGetUpdate(t)
    \/ \E t \in Threads : ThreadGetReturn(t)

SpecThreads == Init /\ [][NextThreads]_vars

\* every thread that is inside save_file keeps running: the statements of
\* the transaction end (they return or raise within the connection's
\* timeout) and the with blocks are left
ThreadsRun ==
    \A t \in Threads :
        /\ WF_vars(ThreadSelect(t) \/ ThreadFail(t))
        /\ WF_vars(ThreadInsert(t) \/ ThreadFail(t))
        /\ WF_vars(ThreadReturn(t))
        /\ WF_vars(ThreadAcquire(t))

\* the calls that compete for db_lock, with one input each: what is saved and
\* what is read does not matter to the lock
LockSaveInputs == { <<"B", [file_name |-> <<"n">>]>> }
LockKeyInputs == {<<1>>}

NextLock ==
    \/ \E t \in Threads, in \in LockSaveInputs : ThreadCall(t, in)
    \/ \E t \in Threads : ThreadAcquire(t)
    \/ \E t \in Threads : ThreadSelect(t)
    \/ \E t \in Threads : ThreadInsert(t)
    \/ \E t \in Threads : ThreadFail(t)
    \/ \E t \in Threads : ThreadReturn(t)
    \/ \E t \in Threads, key \in LockKeyInputs : ThreadGetCall(t, key)
    \/ \E t \in Threads : ThreadGetSelect(t)
    \/ \E t \in Threads : ThreadGetUpdate(t)
    \/ \E t \in Threads : ThreadGetReturn(t)

SpecLock == Init /\ [][NextLock]_vars /\ ThreadsRun

----------------------------------------------------------------------------
(* SpecCache: the membership_cache table called by one caller, one call at *)
(* a time, while time passes                                               *)

CacheUsers == {7, 8}
CacheTicks == {150}

CacheWrite(u, g, v) ==
    /\ cache' = CacheMembership(cache, u, g, v, now)
    /\ hist' = [hist EXCEPT !.op = "cache_membership", !.arg = <<u, g>>,
                    !.ret = <<>>, !.written = Ext(@, <<u, g>>, v)]
    /\ UNCHANGED <<files, now, db_lock, thr, slot, jobs, msgseq, job_queue>>

CacheRead(u, g) ==
    /\ hist' = [hist EXCEPT !.op = "get_cached_membership", !.arg = <<u, g>>,
                    !.ret = GetCachedMembership(cache, u, g, now)]
    /\ UNCHANGED <<files, cache, now, db_lock, thr, slot, jobs, msgseq, job_queue>>

\* clear_membership_cache(), and clear_membership_cache(user_id) for the
\* users and for 0
ClearInputs == {NoneV} \cup {Some(u) : u \in CacheUsers \cup {0}}

CacheClear(user_opt) ==
    /\ cache' = ClearMembershipCache(cache, user_opt)
    /\ hist' = [hist EXCEPT !.op = "clear_membership_cache", !.arg = user_opt,
                    !.ret = <<>>]
    /\ UNCHANGED <<files, now, db_lock, thr, slot, jobs, msgseq, job_queue>>

\* time passes between two calls
CacheTick(d) ==
    /\ now + d <= MaxCacheTime
    /\ now' = now + d
    /\ hist' = [hist EXCEPT !.op = "tick", !.arg = <<>>, !.ret = <<>>]
    /\ UNCHANGED <<files, cache, db_lock, thr, slot, jobs, msgseq, job_queue>>

NextCache ==
    \/ \E u \in CacheUsers, i \in 1..2, v \in BOOLEAN : CacheWrite(u, Channels[i], v)
    \/ \E u \in CacheUsers, i \in 1..2 : CacheRead(u, Channels[i])
    \/ \E o \in ClearInputs : CacheClear(o)
    \/ \E d \in CacheTicks : CacheTick(d)

SpecCache == Init /\ [][NextCache]_vars

----------------------------------------------------------------------------
(* The membership verifier: check_user_in_channel, check_membership *)

\* ChatMember.status values, and the texts the code looks for in an error
Statuses == {"creator", "administrator", "member", "left", "kicked"}
ErrorTexts ==
    { {"user not found"}, {"user not participant"}, {"chat not found"},
      {"forbidden"}, {} }

\* what bot.get_chat_member does: returns a member with a status, or raises an
\* error whose lowercased text contains the phrases of text
Answers ==
    {[kind |-> "status", status |-> st, text |-> {}] : st \in Statuses}
    \cup {[kind |-> "error", status |-> "", text |-> e] : e \in ErrorTexts}

\* f"@{CHANNEL_1}"
Handle(channel) == <<"@", channel>>

\* Variant of CacheHit: force_check is not looked at.
CacheHitUnforced(force, cached) == ~IsNone(cached)

\* Variant of CacheHit: "if cached:" in place of "if cached is not None:".
CacheHitIfTrue(force, cached) == ~force /\ cached = Some(TRUE)

\* if not force_check: ... if cached is not None: return cached
CacheHit(force, cached) == ~force /\ ~IsNone(cached)

\* Variant of IsMemberStatus: the owner of the channel is left out.
IsMemberStatusNoCreator(status) == status \in {"member", "administrator"}

\* member.status in ["member", "administrator", "creator"]
IsMemberStatus(status) == status \in {"member", "administrator", "creator"}

\* Variant of IsNotMemberError: any "not found" counts, the chat's too.
IsNotMemberErrorAnyNotFound(text) ==
    \/ "user not found" \in text \/ "user not participant" \in text
    \/ "chat not found" \in text

\* "user not found" in error_msg or "user not participant" in error_msg
IsNotMemberError(text) ==
    "user not found" \in text \/ "user not participant" \in text

PLAYABLE_EXTS == {"mp4", "mov", "m4v", "mpeg", "mpg"}
ALL_VIDEO_EXTS ==
    {"mp4", "mkv", "mov", "avi", "webm", "flv", "m4v", "3gp", "wmv", "mpg", "mpeg"}

\* str.lower(), on the name components the model uses
Lower(w) ==
    CASE w = "MP4" -> "mp4"
      [] w = "MKV" -> "mkv"
      [] OTHER -> w

\* filename.lower().split('.')[-1] if '.' in filename else ""
ExtOf(name) == IF Len(name) > 1 THEN Lower(name[Len(name)]) ELSE ""

\* Variant of SendKind: every record flagged as video goes out by send_video.
SendKindAnyVideo(info) == IF info.is_video THEN "video" ELSE "document"

\* if file_info['is_video'] and ext in PLAYABLE_EXTS: send_video, else
\* send_document
SendKind(info) ==
    IF info.is_video /\ ExtOf(info.file_name) \in PLAYABLE_EXTS
    THEN "video" ELSE "document"

\* Variant of GateDenied: access is refused only when both channels miss.
GateDeniedBothMissing(c) == Len(c.missing) = 2

\* if not result["all_joined"]:
GateDenied(c) == ~c.all

\* check_membership has its result and the caller goes on to its next await:
\* start and check_join with a key refuse (a reply) or call send_video /
\* send_document; check_join without a key edits its message
AfterCheck(c) ==
    IF c.h = "check_membership" THEN [c EXCEPT !.pc = "done", !.ch = 0]
    ELSE IF IsNone(c.key)
    THEN [c EXCEPT !.pc = "reply", !.ch = 0,
                   !.out = IF c.all THEN "joined both" ELSE "check failed"]
    ELSE IF GateDenied(c)
    THEN [c EXCEPT !.pc = "reply", !.ch = 0, !.out = "access required"]
    ELSE [c EXCEPT !.pc = "send", !.ch = 0, !.kind = SendKind(Val(c.file))]

Settle(c, i, r, by) ==
    [c EXCEPT !.res[i] = r, !.how[i] = by,
              !.missing = IF r THEN @ ELSE Append(@, Handle(Channels[i]))]

\* Variant of Finish: "or" in place of "and".
FinishEither(c) == AfterCheck([c EXCEPT !.all = c.res[1] \/ c.res[2]])

\* result["all_joined"] = result["channel1"] and result["channel2"]
Finish(c) == AfterCheck([c EXCEPT !.all = c.res[1] /\ c.res[2]])

\* check_user_in_channel for channel 2 up to its await: a hit returns the
\* cached value, a miss calls get_chat_member
Lookup2(c, ca, t) ==
    LET cached == GetCachedMembership(ca, c.user, Channels[2], t)
    IN  IF CacheHit(c.force, cached)
        THEN Finish(Settle(c, 2, Val(cached), "cache"))
        ELSE [c EXCEPT !.pc = "auth", !.ch = 2, !.q[2] = @ + 1, !.how[2] = "auth"]

\* the same for channel 1; a hit goes on to channel 2 without suspending
Lookup1(c, ca, t) ==
    LET cached == GetCachedMembership(ca, c.user, Channels[1], t)
    IN  IF CacheHit(c.force, cached)
        THEN Lookup2(Settle(c, 1, Val(cached), "cache"), ca, t)
        ELSE [c EXCEPT !.pc = "auth", !.ch = 1, !.q[1] = @ + 1, !.how[1] = "auth"]

\* check_membership up to its first await: the cache of the user is cleared
\* when force_check, then channel 1 is looked up
BeginCheck(c, ca, t) ==
    LET ca1 == IF c.force THEN ClearMembershipCache(ca, Some(c.user)) ELSE ca
        gone == [i \in {j \in 1..2 : <<c.user, Channels[j]>> \in DOMAIN ca \ DOMAIN ca1}
                    |-> ca[<<c.user, Channels[i]>>]]
    IN  [slot |-> Lookup1([c EXCEPT !.cleared = gone], ca1, t), cache |-> ca1]

\* get_chat_member has answered for channel c.ch. wok tells whether a
\* cache_membership call made now succeeds or raises sqlite3.Error.
\*  - a status: is_member is cached and returned; a raising cache write lands
\*    in the except branch with a text that holds none of the phrases: True
\*  - user not found / not participant: False is cached and returned; a raising
\*    cache write leaves check_user_in_channel and check_membership sets True
\*  - chat not found, forbidden, anything else: True, nothing cached
\* Variant of Resolve: a raising cache write after a status is swallowed and
\* is_member returned.
ResolveWriteErrorIgnored(a, wok) ==
    IF a.kind = "status"
    THEN [write |-> TRUE, value |-> IsMemberStatus(a.status),
          r |-> IsMemberStatus(a.status)]
    ELSE IF IsNotMemberError(a.text)
    THEN [write |-> TRUE, value |-> FALSE, r |-> ~wok]
    ELSE [write |-> FALSE, value |-> FALSE, r |-> TRUE]

Resolve(a, wok) ==
    IF a.kind = "status"
    THEN [write |-> TRUE, value |-> IsMemberStatus(a.status),
          r |-> IF wok THEN IsMemberStatus(a.status) ELSE TRUE]
    ELSE IF IsNotMemberError(a.text)
    THEN [write |-> TRUE, value |-> FALSE, r |-> ~wok]
    ELSE [write |-> FALSE, value |-> FALSE, r |-> TRUE]

AuthAnswered(c, ca, t, a, wok) ==
    LET i == c.ch
        o == Resolve(a, wok)
        ca1 == IF o.write /\ wok
               THEN CacheMembership(ca, c.user, Channels[i], o.value, t)
               ELSE ca
        w == IF ~o.write THEN "none" ELSE IF wok THEN "ok" ELSE "raised"
        c1 == Settle([c EXCEPT !.ans[i] = Some([a |-> a, w |-> w])], i, o.r, "auth")
    IN  [slot |-> IF i = 1 THEN Lookup2(c1, ca1, t) ELSE Finish(c1),
         cache |-> ca1]

----------------------------------------------------------------------------
(* SpecVerifier: check_membership called with either force_check, while    *)
(* another caller writes the cache and time passes                         *)

VerifierSlots == {1}
VerifierUsers == {7}
VerifierTicks == {300}

VerifyCall(s, u, force) ==
    /\ slot[s].pc = "idle"
    /\ LET r == BeginCheck([IdleSlot EXCEPT !.h = "check_membership",
                                            !.user = u, !.force = force],
                           cache, now)
       IN  /\ slot' = [slot EXCEPT ![s] = r.slot]
           /\ cache' = r.cache
    /\ UNCHANGED <<files, now, db_lock, thr, jobs, msgseq, job_queue, hist>>

\* the authority answers the get_chat_member call a coroutine waits for
AuthReply(s, a, wok) ==
    /\ slot[s].pc = "auth"
    /\ wok \/ Resolve(a, TRUE).write
    /\ LET r == AuthAnswered(slot[s], cache, now, a, wok)
       IN  /\ slot' = [slot EXCEPT ![s] = r.slot]
           /\ cache' = r.cache
    /\ UNCHANGED <<files, now, db_lock, thr, jobs, msgseq, job_queue, hist>>

\* the coroutine ends
Return(s) ==
    /\ slot[s].pc = "done"
    /\ slot' = [slot EXCEPT ![s] = IdleSlot]
    /\ UNCHANGED <<files, cache, now, db_lock, thr, jobs, msgseq, job_queue, hist>>

\* a cache_membership call of another coroutine
OtherCacheWrite(u, g, v) ==
    /\ cache' = CacheMembership(cache, u, g, v, now)
    /\ UNCHANGED <<files, now, db_lock, thr, slot, jobs, msgseq, job_queue, hist>>

NextVerifier ==
    \/ \E s \in VerifierSlots, u \in VerifierUsers, f \in BOOLEAN : VerifyCall(s, u, f)
    \/ \E s \in VerifierSlots, a \in Answers, wok \in BOOLEAN : AuthReply(s, a, wok)
    \/ \E s \in VerifierSlots : Return(s)
    \/ \E u \in VerifierUsers, i \in 1..2, v \in BOOLEAN :
            OtherCacheWrite(u, Channels[i], v)
    \/ \E d \in VerifierTicks : Tick(d, MaxTime)

SpecVerifier == Init /\ [][NextVerifier]_vars

----------------------------------------------------------------------------
(* Spec: the bot. Its handlers are coroutines of one event loop: a handler  *)
(* runs without interruption from one await to the next, and other         *)
(* handlers and jobs run while it is suspended. The Database calls are      *)
(* synchronous, so each runs within one step.                               *)

\* Variant of BotSlots: Application.builder().concurrent_updates(True), two
\* handlers in flight.
BotSlotsConcurrent == {1, 2}

BotSlots == {1}
BotUsers == {ADMIN_ID, 7}
GateUsers == {7}
BotTicks == {600}

\* the answers of the authority the bot is run against
BotAnswers ==
    { [kind |-> "status", status |-> "member", text |-> {}],
      [kind |-> "status", status |-> "left", text |-> {}],
      [kind |-> "error", status |-> "", text |-> {"chat not found"}] }

\* the bot is run over a database that answers: its get_file, save_file and
\* delete_file calls return, and so do its cache_membership calls (a cache
\* write that raises is followed in SpecVerifier)
BotCacheWrites == {TRUE}

\* the texts start and check_join look for in a failed send
SendErrors == { {"file is too big"}, {"file not found"}, {"forbidden"}, {} }

\* the canned message for a failed send
SendErrorText(text) ==
    IF "file is too big" \in text \/ "too large" \in text THEN "too large"
    ELSE IF "file not found" \in text \/ "invalid file id" \in text THEN "expired"
    ELSE IF "forbidden" \in text THEN "cannot send here"
    ELSE "failed to send"

\* the media messages the admin sends: a video without a name and a mime
\* type, a document with both
UploadMsgs ==
    { [kind |-> "video", file_id |-> "A", file_name |-> NoneV,
       mime_type |-> NoneV, file_size |-> 5],
      [kind |-> "document", file_id |-> "B", file_name |-> Some(<<"b", "MKV">>),
       mime_type |-> Some("video/x-matroska"), file_size |-> 0] }

\* x or default
OrElse(o, default) == IF IsNone(o) THEN default ELSE Val(o)

\* the file_info upload builds from the message
UploadInfo(m) ==
    IF m.kind = "video"
    THEN [file_name |-> OrElse(m.file_name, <<"video_t", "mp4">>),
          mime_type |-> OrElse(m.mime_type, "video/mp4"),
          is_video  |-> TRUE,
          size      |-> m.file_size]
    ELSE LET filename == OrElse(m.file_name, <<"document_t">>)
         IN  [file_name |-> filename,
              mime_type |-> OrElse(m.mime_type, ""),
              is_video  |-> ExtOf(filename) \in ALL_VIDEO_EXTS,
              size      |-> m.file_size]

\* Variant of NotAdmin: nobody is turned away.
NotAdminNobody(u) == FALSE

\* if update.effective_user.id != ADMIN_ID: return
NotAdmin(u) == u # ADMIN_ID

\* a character of an argument that is not a decimal digit
NonDigit == 10

\* int(context.args[0]): the number, or None where it raises ValueError
ParseInt(a) ==
    IF a # <<>> /\ \A i \in 1..Len(a) : a[i] \in Digits
    THEN Some(CastInt(a)) ELSE NoneV

\* days = max(1, min(days, 365))
ClampDays(d) == IF d > 365 THEN 365 ELSE IF d < 1 THEN 1 ELSE d

\* an update is handed to its handler
Dispatch ==
    /\ hist.updates < MaxUpdates
    /\ hist' = [hist EXCEPT !.updates = @ + 1]

\* Variant of ForceCheck: only start asks for a fresh check.
ForceCheckStartOnly(h) == h = "start"

\* check_membership(user_id, context, force_check=True), in start and in both
\* branches of check_join
ForceCheck(h) == TRUE

\* Variant of EnterGate: the rows of the user are cleared before the file is
\* looked up.
EnterGateClearFirst(c, key) ==
    LET g == GetFile(files, key)
        ca == ClearMembershipCache(cache, Some(c.user))
    IN  IF IsNone(g.ret)
        THEN [slot |-> [c EXCEPT !.pc = "reply", !.key = Some(key),
                                 !.out = "not found"],
              files |-> g.files, cache |-> ca]
        ELSE LET r == BeginCheck([c EXCEPT !.key = Some(key), !.file = g.ret,
                                           !.force = ForceCheck(c.h)], ca, now)
             IN  [slot |-> r.slot, files |-> g.files, cache |-> r.cache]

\* the gate from db.get_file(key) to the first await: the reply that the file
\* is not found, or get_chat_member for channel 1 (force_check=True)
EnterGate(c, key) ==
    LET g == GetFile(files, key)
    IN  IF IsNone(g.ret)
        THEN [slot |-> [c EXCEPT !.pc = "reply", !.key = Some(key),
                                 !.out = "not found"],
              files |-> g.files, cache |-> cache]
        ELSE LET r == BeginCheck([c EXCEPT !.key = Some(key), !.file = g.ret,
                                           !.force = ForceCheck(c.h)], cache, now)
             IN  [slot |-> r.slot, files |-> g.files, cache |-> r.cache]

\* start, up to its first await
StartCmd(s, u, hasmsg, keyopt) ==
    /\ slot[s].pc = "idle"
    /\ Dispatch
    /\ LET c == [IdleSlot EXCEPT !.h = "start", !.user = u, !.files0 = files]
           r == IF ~hasmsg
                THEN [slot |-> [c EXCEPT !.pc = "done"], files |-> files,
                      cache |-> cache]
                ELSE IF IsNone(keyopt)
                THEN [slot |-> [c EXCEPT !.pc = "reply", !.out = "welcome"],
                      files |-> files, cache |-> cache]
                ELSE EnterGate(c, Val(keyopt))
       IN  /\ slot' = [slot EXCEPT ![s] = r.slot]
           /\ files' = r.files
           /\ cache' = r.cache
    /\ UNCHANGED <<now, db_lock, thr, jobs, msgseq, job_queue>>

\* check_join, up to await query.answer()
CheckJoinCmd(s, u, data) ==
    /\ slot[s].pc = "idle"
    /\ Dispatch
    /\ slot' = [slot EXCEPT ![s] =
            [IdleSlot EXCEPT !.h = "check_join", !.user = u, !.data = data,
                             !.files0 = files, !.pc = "answer"]]
    /\ UNCHANGED <<files, cache, now, db_lock, thr, jobs, msgseq, job_queue>>

\* query.answer() returns, or raises into the handler's except branch
AnswerDone(s, ok) ==
    /\ slot[s].pc = "answer"
    /\ LET c == slot[s]
           r == IF ~ok
                THEN [slot |-> [c EXCEPT !.pc = "reply", !.out = "error"],
                      files |-> files, cache |-> cache]
                ELSE IF c.data = <<"check_membership">>
                THEN LET b == BeginCheck([c EXCEPT !.force = ForceCheck(c.h)],
                                         cache, now)
                     IN  [slot |-> b.slot, files |-> files, cache |-> b.cache]
                ELSE IF Len(c.data) # 2
                THEN [slot |-> [c EXCEPT !.pc = "done"], files |-> files,
                      cache |-> cache]
                ELSE EnterGate(c, c.data[2])
       IN  /\ slot' = [slot EXCEPT ![s] = r.slot]
           /\ files' = r.files
           /\ cache' = r.cache
    /\ UNCHANGED <<now, db_lock, thr, jobs, msgseq, job_queue, hist>>

\* context.job_queue.run_once(delete_job, DELETE_AFTER, data=message_id,
\* chat_id=chat_id, name=...)
NewJob(c, prefix) ==
    [chat_id |-> c.user, data |-> Val(c.sent), due |-> now + DELETE_AFTER,
     name |-> <<prefix, c.user, Val(c.sent)>>]

\* if sent and context.job_queue: run_once(...)
Arm(c, prefix) ==
    IF job_queue
    THEN [slot |-> [c EXCEPT !.armed = TRUE, !.pc = "done", !.out = "file sent"],
          jobs |-> jobs \cup {NewJob(c, prefix)}]
    ELSE [slot |-> [c EXCEPT !.pc = "done", !.out = "file sent"], jobs |-> jobs]

\* send_video / send_document returns the message, or raises. start arms the
\* deletion at once; check_join first edits its message.
SendReply(s, ok, text) ==
    /\ slot[s].pc = "send"
    /\ ok => text = {}
    /\ LET c == slot[s]
           c1 == [c EXCEPT !.sent = Some(msgseq + 1)]
           r == IF ~ok
                THEN [slot |-> [c EXCEPT !.pc = "reply",
                                         !.out = SendErrorText(text)],
                      jobs |-> jobs]
                ELSE IF c.h = "start" THEN Arm(c1, "delete_msg")
                ELSE [slot |-> [c1 EXCEPT !.pc = "edit"], jobs |-> jobs]
       IN  /\ slot' = [slot EXCEPT ![s] = r.slot]
           /\ jobs' = r.jobs
           /\ msgseq' = IF ok THEN msgseq + 1 ELSE msgseq
           /\ hist' = IF ok
                      THEN [hist EXCEPT !.sends =
                                Ext(@, Val(c.key), DictGet(@, Val(c.key), 0) + 1)]
                      ELSE hist
    /\ UNCHANGED <<files, cache, now, db_lock, thr, job_queue>>

\* check_join: query.edit_message_text("Access granted") returns, and the
\* deletion is armed, or raises into the except branch of the send
EditReply(s, ok) ==
    /\ slot[s].pc = "edit"
    /\ LET c == slot[s]
           r == IF ok THEN Arm(c, "delete_callback")
                ELSE [slot |-> [c EXCEPT !.pc = "reply",
                                         !.out = SendErrorText({})],
                      jobs |-> jobs]
       IN  /\ slot' = [slot EXCEPT ![s] = r.slot]
           /\ jobs' = r.jobs
    /\ UNCHANGED <<files, cache, now, db_lock, thr, msgseq, job_queue, hist>>

\* the handlers whose replies are followed when they raise
GateHandlers == {"start", "check_join"}

\* what a reply of a gate handler that raises leads to:
\*  - start: "except Exception" around the whole handler replies "Error
\*    processing request"; that reply is outside any try, and when it raises
\*    the exception leaves the handler
\*  - check_join: "except Exception" around the whole handler calls
\*    callback_query.answer in a try whose except passes, and the handler ends
ReplyRaised(c) ==
    IF c.h = "start"
    THEN IF c.out = "error processing request"
         THEN [IdleSlot EXCEPT !.pc = "raised", !.h = c.h, !.user = c.user]
         ELSE [c EXCEPT !.out = "error processing request"]
    ELSE IF c.out = "error" THEN IdleSlot ELSE [c EXCEPT !.out = "error"]

\* the last reply_text / edit_message_text of a handler returns, and the
\* handler ends, or raises; what an admin command's reply raises is logged
ReplyDone(s, ok) ==
    /\ slot[s].pc = "reply"
    /\ ok \/ slot[s].h \in GateHandlers
    /\ slot' = [slot EXCEPT ![s] = IF ok THEN IdleSlot ELSE ReplyRaised(slot[s])]
    /\ UNCHANGED <<files, cache, now, db_lock, thr, jobs, msgseq, job_queue, hist>>

\* error_handler: the exception that left a handler is logged
ErrorHandler(s) ==
    /\ slot[s].pc = "raised"
    /\ slot' = [slot EXCEPT ![s] = IdleSlot]
    /\ UNCHANGED <<files, cache, now, db_lock, thr, jobs, msgseq, job_queue, hist>>

\* upload, up to its reply
UploadCmd(s, u, m) ==
    /\ slot[s].pc = "idle"
    /\ hist.updates < MaxUpdates
    /\ LET c == [IdleSlot EXCEPT !.h = "upload", !.user = u]
           r == SaveFile(files, m.file_id, UploadInfo(m), now)
       IN  IF NotAdmin(u)
           THEN /\ slot' = [slot EXCEPT ![s] = [c EXCEPT !.pc = "done"]]
                /\ files' = files
                /\ hist' = [hist EXCEPT !.updates = @ + 1]
           ELSE /\ slot' = [slot EXCEPT ![s] =
                        [c EXCEPT !.pc = "reply", !.key = Some(r.ret),
                                  !.out = IF r.ok THEN "upload successful"
                                          ELSE "upload failed"]]
                /\ files' = r.files
                /\ hist' = [hist EXCEPT !.updates = @ + 1,
                                         !.sends = Without(@, r.ret),
                                         !.removed = @ \ {r.ret}]
    /\ UNCHANGED <<cache, now, db_lock, thr, jobs, msgseq, job_queue>>

\* deletefile, up to its reply: get_file, then delete_file
DeleteFileCmd(s, u, keyopt) ==
    /\ slot[s].pc = "idle"
    /\ hist.updates < MaxUpdates
    /\ hist' = [hist EXCEPT
            !.updates = @ + 1,
            !.removed = IF /\ ~NotAdmin(u)
                           /\ ~IsNone(keyopt)
                           /\ DeleteFile(GetFile(files, Val(keyopt)).files,
                                         Val(keyopt)).ret
                        THEN @ \cup {Val(keyopt)} ELSE @]
    /\ LET c == [IdleSlot EXCEPT !.h = "deletefile", !.user = u, !.key = keyopt]
       IN  IF NotAdmin(u)
           THEN /\ slot' = [slot EXCEPT ![s] = [c EXCEPT !.pc = "done"]]
                /\ files' = files
           ELSE IF IsNone(keyopt)
           THEN /\ slot' = [slot EXCEPT ![s] = [c EXCEPT !.pc = "reply",
                                                         !.out = "usage"]]
                /\ files' = files
           ELSE LET g == GetFile(files, Val(keyopt))
                    d == DeleteFile(g.files, Val(keyopt))
                IN  IF IsNone(g.ret)
                    THEN /\ slot' = [slot EXCEPT ![s] =
                                [c EXCEPT !.pc = "reply", !.out = "not found"]]
                         /\ files' = g.files
                    ELSE /\ slot' = [slot EXCEPT ![s] =
                                [c EXCEPT !.pc = "reply", !.file = g.ret,
                                          !.out = IF d.ret THEN "file deleted"
                                                  ELSE "failed to delete"]]
                         /\ files' = d.files
    /\ UNCHANGED <<cache, now, db_lock, thr, jobs, msgseq, job_queue>>

\* cleanup, up to its reply: DELETE FROM files WHERE timestamp <
\* datetime('now', '-N days') with N = 30 or the clamped argument
CleanupCmd(s, u, argopt) ==
    /\ slot[s].pc = "idle"
    /\ Dispatch
    /\ LET c == [IdleSlot EXCEPT !.h = "cleanup", !.user = u]
           c1 == [c EXCEPT !.args = argopt, !.pc = "reply"]
           days == IF IsNone(argopt) THEN Some(30)
                   ELSE IF IsNone(ParseInt(Val(argopt))) THEN NoneV
                   ELSE Some(ClampDays(Val(ParseInt(Val(argopt)))))
       IN  IF NotAdmin(u)
           THEN /\ slot' = [slot EXCEPT ![s] = [c EXCEPT !.pc = "done"]]
                /\ files' = files
           ELSE IF IsNone(days)
           THEN /\ slot' = [slot EXCEPT ![s] = [c1 EXCEPT !.out = "usage"]]
                /\ files' = files
           ELSE IF Val(days) = 0
           THEN /\ slot' = [slot EXCEPT ![s] = [c1 EXCEPT !.out = "cleanup cancelled"]]
                /\ files' = files
           ELSE /\ slot' = [slot EXCEPT ![s] = [c1 EXCEPT !.out = "cleanup complete"]]
                /\ files' = DropOlder(files, Val(days), now)
    /\ UNCHANGED <<cache, now, db_lock, thr, jobs, msgseq, job_queue>>

\* clearcache, up to its reply
ClearCacheCmd(s, u, argopt) ==
    /\ slot[s].pc = "idle"
    /\ Dispatch
    /\ LET c == [IdleSlot EXCEPT !.h = "clearcache", !.user = u]
           c1 == [c EXCEPT !.args = argopt, !.pc = "reply"]
           user_id == IF IsNone(argopt) THEN NoneV ELSE ParseInt(Val(argopt))
       IN  IF NotAdmin(u)
           THEN /\ slot' = [slot EXCEPT ![s] = [c EXCEPT !.pc = "done"]]
                /\ cache' = cache
           ELSE IF ~IsNone(argopt) /\ IsNone(user_id)
           THEN /\ slot' = [slot EXCEPT ![s] = [c1 EXCEPT !.out = "usage"]]
                /\ cache' = cache
           ELSE /\ slot' = [slot EXCEPT ![s] =
                        [c1 EXCEPT !.out = IF ~IsNone(user_id) /\ Val(user_id) # 0
                                           THEN "cleared cache for user"
                                           ELSE "cleared all cache"]]
                /\ cache' = ClearMembershipCache(cache, user_id)
    /\ UNCHANGED <<files, now, db_lock, thr, jobs, msgseq, job_queue>>

\* a command of the admin that reads and replies: the others are turned away
ReadOnlyCmd(s, u, h) ==
    /\ slot[s].pc = "idle"
    /\ Dispatch
    /\ LET c == [IdleSlot EXCEPT !.h = h, !.user = u]
       IN  slot' = [slot EXCEPT ![s] =
                IF NotAdmin(u) THEN [c EXCEPT !.pc = "done"]
                ELSE [c EXCEPT !.pc = "reply", !.out = h]]
    /\ UNCHANGED <<files, cache, now, db_lock, thr, jobs, msgseq, job_queue>>

\* listfiles: get_all_files and a reply
ListFilesCmd(s, u) == ReadOnlyCmd(s, u, "listfiles")

\* stats: get_file_count, get_all_files and a reply
StatsCmd(s, u) == ReadOnlyCmd(s, u, "stats")

\* testchannel: get_chat_member for both channels, whose answers or errors
\* go into the text of the reply
TestChannelCmd(s, u) == ReadOnlyCmd(s, u, "testchannel")

\* one more delete_message call for message id, and how it ended
Attempt(d, id, ok) ==
    Ext(d, id, [n |-> (IF id \in DOMAIN d THEN d[id].n ELSE 0) + 1, ok |-> ok])

\* Variant of JobRun: a job armed for a file that was deleted since is dropped.
JobRunUnlessRemoved(j, ok) ==
    /\ j \in jobs
    /\ now >= j.due
    /\ jobs' = jobs \ {j}
    /\ hist' = IF j.chat_id # 0 /\ j.data # 0 /\ hist.removed = {}
               THEN [hist EXCEPT !.deletes = Attempt(@, <<j.chat_id, j.data>>, ok),
                                 !.fired = Ext(@, <<j.chat_id, j.data>>, hist.removed)]
               ELSE hist
    /\ UNCHANGED <<files, cache, now, db_lock, thr, slot, msgseq, job_queue>>

\* Variant of JobRun: a job whose delete_message raised is armed again.
JobRunRetrying(j, ok) ==
    /\ j \in jobs
    /\ now >= j.due
    /\ jobs' = IF ok THEN jobs \ {j}
               ELSE (jobs \ {j}) \cup {[j EXCEPT !.due = now]}
    /\ hist' = IF j.chat_id # 0 /\ j.data # 0
               THEN [hist EXCEPT !.deletes = Attempt(@, <<j.chat_id, j.data>>, ok),
                                 !.fired = Ext(@, <<j.chat_id, j.data>>, hist.removed)]
               ELSE hist
    /\ UNCHANGED <<files, cache, now, db_lock, thr, slot, msgseq, job_queue>>

\* Variant of JobRun: the rows of files as old as the delay go with the message.
JobRunExpiringFiles(j, ok) ==
    /\ j \in jobs
    /\ now >= j.due
    /\ jobs' = jobs \ {j}
    /\ files' = [k \in {x \in DOMAIN files : files[x].timestamp > now - DELETE_AFTER}
                    |-> files[k]]
    /\ hist' = IF j.chat_id # 0 /\ j.data # 0
               THEN [hist EXCEPT !.deletes = Attempt(@, <<j.chat_id, j.data>>, ok),
                                 !.fired = Ext(@, <<j.chat_id, j.data>>, hist.removed)]
               ELSE hist
    /\ UNCHANGED <<cache, now, db_lock, thr, slot, msgseq, job_queue>>

\* delete_job: the job runs once when its delay is over and calls
\* delete_message; what that raises is logged
JobRun(j, ok) ==
    /\ j \in jobs
    /\ now >= j.due
    /\ jobs' = jobs \ {j}
    /\ hist' = IF j.chat_id # 0 /\ j.data # 0
               THEN [hist EXCEPT !.deletes = Attempt(@, <<j.chat_id, j.data>>, ok),
                                 !.fired = Ext(@, <<j.chat_id, j.data>>, hist.removed)]
               ELSE hist
    /\ UNCHANGED <<files, cache, now, db_lock, thr, slot, msgseq, job_queue>>

InitBot ==
    /\ files = <<>>
    /\ cache = <<>>
    /\ now = 0
    /\ db_lock = NoThread
    /\ thr = [t \in Threads |-> IdleThread]
    /\ slot = [s \in Slots |-> IdleSlot]
    /\ jobs = {}
    /\ msgseq = 0
    /\ job_queue \in BOOLEAN
    /\ hist = NoHist

\* /cleanup, /cleanup 0, /cleanup x
CleanupArgs == {NoneV, Some(<<0>>), Some(<<NonDigit>>)}

\* /clearcache, /clearcache 7, /clearcache 0, /clearcache x
ClearCacheArgs == {NoneV, Some(<<7>>), Some(<<0>>), Some(<<NonDigit>>)}

CallbackData == {<<"check_membership">>} \cup {<<"check", k>> : k \in KeyInputs}

Next ==
    \/ \E s \in BotSlots, u \in GateUsers, m \in BOOLEAN,
          k \in {NoneV} \cup {Some(x) : x \in KeyInputs} : StartCmd(s, u, m, k)
    \/ \E s \in BotSlots, u \in GateUsers, d \in CallbackData : CheckJoinCmd(s, u, d)
    \/ \E s \in BotSlots, ok \in BOOLEAN : AnswerDone(s, ok)
    \/ \E s \in BotSlots, a \in BotAnswers, wok \in BotCacheWrites : AuthReply(s, a, wok)
    \/ \E s \in BotSlots, ok \in BOOLEAN, e \in SendErrors : SendReply(s, ok, e)
    \/ \E s \in BotSlots, ok \in BOOLEAN : EditReply(s, ok)
    \/ \E s \in BotSlots, ok \in BOOLEAN : ReplyDone(s, ok)
    \/ \E s \in BotSlots : ErrorHandler(s)
    \/ \E s \in BotSlots : Return(s)
    \/ \E s \in BotSlots, u \in BotUsers, m \in UploadMsgs : UploadCmd(s, u, m)
    \/ \E s \in BotSlots, u \in BotUsers,
          k \in {NoneV} \cup {Some(x) : x \in KeyInputs} : DeleteFileCmd(s, u, k)
    \/ \E s \in BotSlots, u \in BotUsers, a \in CleanupArgs : CleanupCmd(s, u, a)
    \/ \E s \in BotSlots, u \in BotUsers, a \in ClearCacheArgs : ClearCacheCmd(s, u, a)
    \/ \E s \in BotSlots, u \in BotUsers : ListFilesCmd(s, u)
    \/ \E s \in BotSlots, u \in BotUsers : StatsCmd(s, u)
    \/ \E s \in BotSlots, u \in BotUsers : TestChannelCmd(s, u)
    \/ \E j \in jobs, ok \in BOOLEAN : JobRun(j, ok)
    \/ \E d \in BotTicks : Tick(d, MaxTime)

Spec == InitBot /\ [][Next]_vars

----------------------------------------------------------------------------
(* SpecStatus: the Flask thread answering /, /health and /ping while        *)
(* save_file and get_file run on other threads and the cache is written    *)

\* a request of the status server is answered
Answer(route, code, count) ==
    hist' = [hist EXCEPT !.served = ~@,
                         !.status = [route |-> route, code |-> code,
                                     file_count |-> count]]

\* Variant of HealthRequest: the health check writes a probe row and reads it.
HealthRequestProbing(ok) ==
    /\ files' = IF ok THEN SaveFile(files, "probe", <<>>, now).files ELSE files
    /\ Answer("/health", IF ok THEN 200 ELSE 500,
              IF ok THEN GetFileCount(files') ELSE 0)
    /\ UNCHANGED <<cache, now, db_lock, thr, slot, jobs, msgseq, job_queue>>

\* home: db.get_file_count() in a try whose except passes, file_count = 0
HomeRequest(ok) ==
    /\ Answer("/", 200, IF ok THEN GetFileCount(files) ELSE 0)
    /\ UNCHANGED <<files, cache, now, db_lock, thr, slot, jobs, msgseq, job_queue>>

\* health: db.get_file_count(); when it raises the request fails
HealthRequest(ok) ==
    /\ Answer("/health", IF ok THEN 200 ELSE 500,
              IF ok THEN GetFileCount(files) ELSE 0)
    /\ UNCHANGED <<files, cache, now, db_lock, thr, slot, jobs, msgseq, job_queue>>

\* ping: "pong"
PingRequest ==
    /\ Answer("/ping", 200, 0)
    /\ UNCHANGED <<files, cache, now, db_lock, thr, slot, jobs, msgseq, job_queue>>

NextStatus ==
    \/ \E t \in Threads, in \in LockSaveInputs : ThreadCall(t, in)
    \/ \E t \in Threads : ThreadAcquire(t)
    \/ \E t \in Threads : ThreadSelect(t)
    \/ \E t \in Threads : ThreadInsert(t)
    \/ \E t \in Threads : ThreadFail(t)
    \/ \E t \in Threads : ThreadReturn(t)
    \/ \E t \in Threads, key \in LockKeyInputs : ThreadGetCall(t, key)
    \/ \E t \in Threads : ThreadGetSelect(t)
    \/ \E t \in Threads : ThreadGetUpdate(t)
    \/ \E t \in Threads : ThreadGetReturn(t)
    \/ \E u \in VerifierUsers, v \in BOOLEAN : OtherCacheWrite(u, CHANNEL_1, v)
    \/ \E ok \in BOOLEAN : HomeRequest(ok)
    \/ \E ok \in BOOLEAN : HealthRequest(ok)
    \/ PingRequest

SpecStatus == Init /\ [][NextStatus]_vars

----------------------------------------------------------------------------
(* SpecCleanup: the cleanup command on rows saved days apart *)

\* /cleanup, /cleanup 0, /cleanup 1, /cleanup 2, /cleanup 400, /cleanup x
DayArgs ==
    {NoneV, Some(<<0>>), Some(<<1>>), Some(<<2>>), Some(<<4, 0, 0>>),
     Some(<<NonDigit>>)}

NextCleanup ==
    \/ \E in \in RetentionSaveInputs : StoreSave(in[1], in[2])
    \/ \E s \in BotSlots, u \in BotUsers, a \in DayArgs : CleanupCmd(s, u, a)
    \/ \E s \in BotSlots, ok \in BOOLEAN : ReplyDone(s, ok)
    \/ \E s \in BotSlots : Return(s)
    \/ \E d \in StoreTicks : Tick(d, MaxCleanupTime)

SpecCleanup == Init /\ [][NextCleanup]_vars

----------------------------------------------------------------------------
(* Properties of the store *)

StrictlyIncreasing(ids) ==
    \A i, j \in 1..Len(ids) : i < j => CastInt(ids[i]) < CastInt(ids[j])

\* C2: in a run of save_file calls with no removal in between, every id
\* returned is greater, as an integer, than the ids returned before it (so they
\* are pairwise distinct); on an empty table the id is "1" and otherwise it is
\* the greatest integer id present plus one.
C2_KeysIncreaseWithoutRemoval ==
    /\ StrictlyIncreasing(hist.issued)
    /\ hist.op # "save_file raised"
    /\ hist.op = "save_file" =>
         /\ Head(Val(hist.ret)) # 0
         /\ CastInt(Val(hist.ret)) =
              IF hist.before = {} THEN 1
              ELSE SetMax({CastInt(k) : k \in hist.before}) + 1
         /\ hist.before = {} => Val(hist.ret) = <<1>>

C2_Witness ==
    /\ hist.op = "save_file"
    /\ hist.issued = << <<1>>, <<2>>, <<3>> >>

\* C4: over the whole life of the table, removals included, every id save_file
\* returns is greater than every id it returned before.
C4_KeysNeverReused == StrictlyIncreasing(hist.ever)

\* C5: get_file after save_file returns the fields that were saved, and the
\* n-th successful get_file of an id since its save returns access_count n
\* and leaves n stored.
C5_GetFileRoundTrip ==
    /\ \A k \in DOMAIN files : files[k].access_count = hist.gets[k]
    /\ hist.op = "get_file" /\ ~IsNone(hist.ret) =>
         LET k == hist.arg
             r == Val(hist.ret)
             ref == hist.saved[k][1]
             info == hist.saved[k][2]
         IN  /\ r.file_id = ref
             /\ r.file_name = DictGet(info, "file_name", <<"">>)
             /\ r.mime_type = DictGet(info, "mime_type", "")
             /\ r.is_video = DictGet(info, "is_video", FALSE)
             /\ r.size = DictGet(info, "size", 0)
             /\ r.access_count = hist.gets[k]
             /\ hist.gets[k] >= 1
             /\ files[k].access_count = r.access_count

C5_Witness ==
    /\ hist.op = "get_file"
    /\ ~IsNone(hist.ret)
    /\ Val(hist.ret).access_count = 2
    /\ Val(hist.ret).is_video

\* C3: save_file calls made from different threads do not interleave between
\* reading the maximum and inserting: at most one is inside the lock, the id
\* a call read is still free when it inserts, no call fails on a taken id,
\* the ids returned are pairwise distinct and each has a row of its own.
C3_SavesDoNotInterleave ==
    /\ Cardinality({t \in Threads : InSaveFile(t)}) <= 1
    /\ \A t \in Threads :
         /\ thr[t].pc # "raise"
         /\ thr[t].pc = "insert" => thr[t].new_id \notin DOMAIN files
    /\ \A i, j \in 1..Len(hist.ever) : i # j => hist.ever[i] # hist.ever[j]
    /\ \A i \in 1..Len(hist.ever) :
         /\ hist.ever[i] \in DOMAIN files
         /\ files[hist.ever[i]].file_id = hist.saved[hist.ever[i]][1]

C3_Witness ==
    /\ thr[1].pc = "lock"
    /\ thr[2].pc = "insert"
    /\ Len(hist.ever) = 1

\* C6 as stated: get_cached_membership returns None exactly when there is no
\* row or the row is older than 5 minutes; a row exactly 5 minutes old is
\* still returned.
C6_ValidThroughFiveMinutes ==
    hist.op = "get_cached_membership" =>
        LET k == hist.arg
        IN  IsNone(hist.ret) <=>
              (k \notin DOMAIN cache \/ now - cache[k].timestamp > 300)

\* C6 amended: get_cached_membership returns None exactly when there is no row
\* or the row is 5 minutes old or older; a row younger than 5 minutes returns
\* the is_member value last written by cache_membership.
C6_ValidBelowFiveMinutes ==
    hist.op = "get_cached_membership" =>
        LET k == hist.arg
        IN  /\ IsNone(hist.ret) <=>
                  (k \notin DOMAIN cache \/ now - cache[k].timestamp >= 300)
            /\ ~IsNone(hist.ret) => Val(hist.ret) = hist.written[k]

C6_Witness ==
    /\ hist.op = "get_cached_membership"
    /\ hist.ret = Some(FALSE)
    /\ now - cache[hist.arg].timestamp = 150

----------------------------------------------------------------------------
(* Properties of the verifier *)

InSeq(x, sq) == \E j \in 1..Len(sq) : sq[j] = x

\* the authority's answer for channel i arrives in this step
Answered(s, i) == IsNone(slot[s].ans[i]) /\ ~IsNone(slot'[s].ans[i])

NotMemberAnswer(x) ==
    /\ x.a.kind = "error"
    /\ "user not found" \in x.a.text \/ "user not participant" \in x.a.text

\* the value a channel gets from the authority's answer x and from whether the
\* cache write it leads to went through; the cache has no part in it
FromAnswer(x) ==
    IF x.w = "raised" THEN TRUE
    ELSE IF x.a.kind = "status"
    THEN x.a.status \in {"member", "administrator", "creator"}
    ELSE ~NotMemberAnswer(x)

\* C7: check_membership with force_check never returns a cached value: each
\* channel it has settled was settled by one get_chat_member call of this
\* check, its value follows from that answer, and a finished check has asked
\* for both channels.
C7_ForcedCheckAsksAuthority ==
    \A s \in Slots :
        LET c == slot[s]
        IN  (c.pc # "idle" /\ c.force) =>
              /\ \A i \in 1..2 :
                   /\ c.how[i] # "cache"
                   /\ c.q[i] = IF c.how[i] = "auth" THEN 1 ELSE 0
                   /\ ~IsNone(c.ans[i]) => c.res[i] = FromAnswer(Val(c.ans[i]))
              /\ c.pc # "auth" => \A i \in 1..2 : ~IsNone(c.ans[i])
              /\ c.pc # "auth" => c.all = (c.res[1] /\ c.res[2])

\* a forced check asked the authority about channel 2 although the cache held
\* a valid False for it, and got True
C7_Witness ==
    \E s \in Slots :
        /\ slot[s].force
        /\ slot[s].pc = "auth"
        /\ slot[s].ch = 2
        /\ slot[s].res[1]
        /\ GetCachedMembership(cache, slot[s].user, CHANNEL_2, now) = Some(FALSE)

\* C8: without force_check the authority is asked about a channel exactly
\* when get_cached_membership is None for it: a valid row is returned with no
\* call, a missing or expired row leads to one call.
C8_AuthorityAskedIffCacheMiss ==
    [][\A s \in Slots : \A i \in 1..2 :
          LET c == slot'[s]
              g == GetCachedMembership(cache', c.user, Channels[i], now')
          IN  (~c.force /\ c.pc # "idle" /\ slot[s].how[i] = "-" /\ c.how[i] # "-") =>
                /\ c.how[i] = "auth" <=> IsNone(g)
                /\ c.how[i] = "auth" => c.q[i] = 1
                /\ c.how[i] = "cache" => c.q[i] = 0 /\ Some(c.res[i]) = g
      ]_vars

C8_Witness ==
    \E s \in Slots :
        /\ ~slot[s].force
        /\ slot[s].pc = "done"
        /\ slot[s].how = <<"cache", "auth">>
        /\ ~slot[s].res[1]
        /\ slot[s].q = <<0, 1>>

C10_NotFoundIsNotMember ==
    [][\A s \in Slots : \A i \in 1..2 :
          Answered(s, i) =>
            LET c == slot'[s]
                x == Val(c.ans[i])
                k == <<c.user, Channels[i]>>
            IN  NotMemberAnswer(x) =>
                  /\ ~c.res[i]
                  /\ InSeq(Handle(Channels[i]), c.missing)
                  /\ ~c.all
                  /\ k \in DOMAIN cache'
                  /\ cache'[k] = [is_member |-> 0, timestamp |-> now']
      ]_vars

\* get_chat_member raised, and not with user not found / not participant
FailOpenAnswer(x) == x.a.kind = "error" /\ ~NotMemberAnswer(x)

\* the rows of the cache other than those of user u
RowsOfOthers(ca, u) == [k \in {x \in DOMAIN ca : x[1] # u} |-> ca[k]]

\* C11 as stated: when get_chat_member fails with chat not found, forbidden
\* or another error that is not user not found, the channel is True, its
\* handle is not in missing_channels, and the row of (user, channel) is after
\* check_membership as it was before: the call wrote none and removed none,
\* with force_check or without.
C11_FailOpenLeavesRow ==
    \A s \in Slots : \A i \in 1..2 :
        LET c == slot[s]
        IN  (c.pc # "idle" /\ ~IsNone(c.ans[i]) /\ FailOpenAnswer(Val(c.ans[i]))) =>
              /\ c.res[i]
              /\ ~InSeq(Handle(Channels[i]), c.missing)
              /\ Val(c.ans[i]).w = "none"
              /\ i \notin DOMAIN c.cleared

\* C11 amended: the channel is True and its handle is not in missing_channels;
\* the failed get_chat_member leaves the whole cache as it is; without
\* force_check the call of check_membership removes nothing, and with
\* force_check it removes every row of the user at its start, the row of
\* (user, channel) included, and no other row.
C11_FailOpenWritesNothing ==
    [][\A s \in Slots : \A i \in 1..2 :
          LET c == slot'[s]
          IN  /\ (Answered(s, i) /\ FailOpenAnswer(Val(c.ans[i]))) =>
                    /\ c.res[i]
                    /\ ~InSeq(Handle(Channels[i]), c.missing)
                    /\ Val(c.ans[i]).w = "none"
                    /\ cache' = cache
              /\ (c.pc # "idle" /\ ~IsNone(c.ans[i])
                     /\ FailOpenAnswer(Val(c.ans[i]))) =>
                    /\ c.res[i]
                    /\ ~InSeq(Handle(Channels[i]), c.missing)
                    /\ c.pc # "auth" => c.all = c.res[3 - i]
              /\ (slot[s].pc = "idle" /\ c.pc # "idle" /\ c.h = "check_membership") =>
                    IF c.force
                    THEN /\ cache' = RowsOfOthers(cache, c.user)
                         /\ DOMAIN c.cleared = {j \in 1..2 :
                                <<c.user, Channels[j]>> \in DOMAIN cache}
                    ELSE cache' = cache /\ c.cleared = <<>>
      ]_vars

\* without force_check, a row of channel 2 that has expired is still there,
\* as it was, after get_chat_member failed with chat not found
C11_Witness ==
    \E s \in Slots :
        /\ slot[s].pc = "done"
        /\ ~slot[s].force
        /\ slot[s].ans[2] =
             Some([a |-> [kind |-> "error", status |-> "",
                          text |-> {"chat not found"}], w |-> "none"])
        /\ slot[s].res[2]
        /\ ~InSeq(Handle(CHANNEL_2), slot[s].missing)
        /\ <<slot[s].user, CHANNEL_2>> \in DOMAIN cache
        /\ cache[<<slot[s].user, CHANNEL_2>>] = [is_member |-> 0, timestamp |-> 0]
        /\ now = 300

----------------------------------------------------------------------------
(* Properties of the gate *)

\* check_membership has returned its result in this request
Checked(c) == c.pc \in {"send", "edit", "reply", "done"} /\ c.how[2] # "-"

\* C1: in a request with a key, send_video / send_document is called only
\* after get_file returned the record of the key and after check_membership,
\* run in this request for the user of the request, returned all_joined; a
\* request whose result has all_joined False makes no send call and arms no
\* deletion.
C1_DeliveryOnlyWhenAllJoined ==
    \A s \in BotSlots :
        LET c == slot[s]
        IN  /\ (c.pc \in {"send", "edit"} \/ c.kind # "-" \/ ~IsNone(c.sent) \/ c.armed) =>
                  /\ c.h \in {"start", "check_join"}
                  /\ ~IsNone(c.key)
                  /\ ~IsNone(c.file)
                  /\ Checked(c)
                  /\ c.q = <<1, 1>>
                  /\ c.res = <<TRUE, TRUE>>
                  /\ c.all
            /\ (Checked(c) /\ ~c.all) =>
                  /\ c.kind = "-"
                  /\ IsNone(c.sent)
                  /\ ~c.armed
                  /\ c.pc = "reply"
            /\ c.armed => ~IsNone(c.sent)

\* a check_join with a key has delivered a video and armed its deletion
C1_Witness ==
    \E s \in BotSlots :
        /\ slot[s].h = "check_join"
        /\ slot[s].pc = "done"
        /\ slot[s].kind = "video"
        /\ slot[s].armed
        /\ \E j \in jobs : j.data = Val(slot[s].sent) /\ j.chat_id = slot[s].user

\* C12: in every result of check_membership, all_joined is channel1 and
\* channel2, the handle of a channel is in missing_channels exactly when the
\* channel is False (once, channel 1 first), and so all_joined holds exactly
\* when missing_channels is empty.
C12_ResultIsConsistent ==
    \A s \in Slots :
        LET c == slot[s]
        IN  Checked(c) =>
              /\ c.all = (c.res[1] /\ c.res[2])
              /\ \A i \in 1..2 : InSeq(Handle(Channels[i]), c.missing) <=> ~c.res[i]
              /\ Len(c.missing) = Cardinality({i \in 1..2 : ~c.res[i]})
              /\ c.all <=> c.missing = <<>>

\* a result with channel 1 False, from the cache, and channel 2 True
C12_Witness ==
    \E s \in Slots :
        /\ slot[s].pc = "done"
        /\ slot[s].how = <<"cache", "auth">>
        /\ slot[s].res = <<FALSE, TRUE>>
        /\ slot[s].missing = <<Handle(CHANNEL_1)>>
        /\ ~slot[s].all
        /\ Val(slot[s].ans[2]).w = "raised"

\* a step of the request in slot s that has a key: start or check_join
GateStep(s) ==
    /\ slot'[s] # slot[s]
    /\ slot'[s].h \in {"start", "check_join"}
    /\ ~IsNone(slot'[s].key)

\* C13: a request with a key for which get_file returns None ends with the
\* reply that the file is not found, and makes no get_chat_member call, writes
\* and clears no row of the cache, makes no send call and arms no deletion.
C13_KeyNotFoundStopsRequest ==
    [][\A s \in BotSlots :
          LET c == slot'[s]
          IN  /\ (GateStep(s) /\ IsNone(slot[s].key)) =>
                    /\ Val(c.key) \notin DOMAIN files <=> c.out = "not found"
                    /\ Val(c.key) \notin DOMAIN files => c.pc = "reply"
              /\ (GateStep(s) /\ c.out = "not found") =>
                    /\ c.pc = "reply"
                    /\ c.q = <<0, 0>> /\ c.how = <<"-", "-">>
                    /\ c.ans = <<NoneV, NoneV>> /\ c.cleared = <<>>
                    /\ IsNone(c.file) /\ c.kind = "-" /\ IsNone(c.sent) /\ ~c.armed
                    /\ cache' = cache
                    /\ files' = files
                    /\ jobs' = jobs
                    /\ msgseq' = msgseq
      ]_vars

\* a check_join for a key that is not there is at its reply "not found", and
\* the rows an earlier request cached are still there
C13_Witness ==
    \E s \in BotSlots :
        /\ slot[s].h = "check_join"
        /\ slot[s].pc = "reply"
        /\ slot[s].out = "not found"
        /\ slot[s].key = Some(<<2>>)
        /\ DOMAIN files = {<<1>>}
        /\ \A i \in 1..2 : <<slot[s].user, Channels[i]>> \in DOMAIN cache

\* C14: every check_join that reaches check_membership (with a key or
\* without) runs it with force_check: the rows of the user are cleared, both
\* channels are asked, and what the handler does next follows from these
\* answers alone. A user whose rows said False less than 5 minutes ago and
\* whom both channels now report as member is granted on that click.
C14_RecheckIsFresh ==
    [][\A s \in BotSlots :
          LET c == slot'[s]
              joined == \A i \in 1..2 :
                           /\ ~IsNone(c.ans[i])
                           /\ Val(c.ans[i]).a.kind = "status"
                           /\ Val(c.ans[i]).a.status \in {"member", "administrator", "creator"}
          IN  c.h = "check_join" =>
                /\ c.pc = "auth" => c.force
                /\ (slot[s].pc = "answer" /\ c.pc = "auth") =>
                      /\ \A k \in DOMAIN cache' : k[1] # c.user
                      /\ c.data = <<"check_membership">> \/ Val(c.key) \in DOMAIN files
                /\ (slot[s].pc = "answer" /\ c.pc \notin {"answer", "auth"}) => ~Checked(c)
                /\ Checked(c) =>
                      /\ c.force
                      /\ c.how = <<"auth", "auth">>
                      /\ c.q = <<1, 1>>
                      /\ \A i \in 1..2 : c.res[i] = FromAnswer(Val(c.ans[i]))
                /\ (slot[s].pc = "auth" /\ Checked(c)) =>
                      /\ IsNone(c.key) => c.pc = "reply"
                            /\ c.out = (IF c.res[1] /\ c.res[2] THEN "joined both"
                                        ELSE "check failed")
                      /\ ~IsNone(c.key) =>
                            IF c.res[1] /\ c.res[2] THEN c.pc = "send"
                            ELSE c.pc = "reply" /\ c.out = "access required"
                      /\ joined => c.all
      ]_vars

\* a check_join with a key goes on to send the file although the rows it
\* cleared, written in the same minute, said False for both channels
C14_Witness ==
    \E s \in BotSlots :
        /\ slot[s].h = "check_join"
        /\ slot[s].pc = "send"
        /\ ~IsNone(slot[s].key)
        /\ DOMAIN slot[s].cleared = {1, 2}
        /\ \A i \in 1..2 : /\ slot[s].cleared[i].is_member = 0
                           /\ now - slot[s].cleared[i].timestamp < 300
        /\ \A i \in 1..2 : Val(slot[s].ans[i]).a.status = "member"

\* the check of this click cleared, for both channels, a row with the value
\* this click got again: the answers are those of the check before
SameAnswersAsBefore(c) ==
    /\ DOMAIN c.cleared = {1, 2}
    /\ \A i \in 1..2 : /\ ~IsNone(c.ans[i])
                       /\ Val(c.ans[i]).w = "ok"
                       /\ c.cleared[i].is_member = IntOfBool(c.res[i])

\* a check_join with a key has its result, and it refuses
DeniedRecheck(c) ==
    c.h = "check_join" /\ ~IsNone(c.key) /\ Checked(c) /\ ~c.all

\* the is_member values the cache holds for user u
CachedValues(ca, u) ==
    [i \in {j \in 1..2 : <<u, Channels[j]>> \in DOMAIN ca} |->
        ca[<<u, Channels[i]>>].is_member]

\* C15 as stated: a check_join for a key that is refused on the same answers
\* as the check before leaves the table files, every field of every row, and
\* the cached is_member values as they were.
C15_RecheckLeavesTables ==
    \A s \in BotSlots :
        LET c == slot[s]
        IN  (DeniedRecheck(c) /\ SameAnswersAsBefore(c)) =>
              /\ files = c.files0
              /\ CachedValues(cache, c.user) = [i \in 1..2 |-> c.cleared[i].is_member]

\* C15 amended: a refused check_join for a key leaves the ids of files and
\* every field but access_count as they were and adds one to the access_count
\* of the row of the key; after it the cache holds for each channel the value
\* of this click's answer, with the time of this click, or no row when the
\* cache write raised: on the same answers, the is_member values are those of
\* the check before.
C15_RecheckBumpsAccessOnly ==
    \A s \in BotSlots :
        LET c == slot[s]
            k == Val(c.key)
        IN  DeniedRecheck(c) =>
              /\ DOMAIN files = DOMAIN c.files0
              /\ k \in DOMAIN files
              /\ \A x \in DOMAIN files :
                    files[x] = IF x = k
                               THEN [c.files0[x] EXCEPT !.access_count = @ + 1]
                               ELSE c.files0[x]
              /\ \A i \in 1..2 :
                    LET row == <<c.user, Channels[i]>>
                    IN  IF Val(c.ans[i]).w = "ok"
                        THEN /\ row \in DOMAIN cache
                             /\ cache[row].is_member = IntOfBool(c.res[i])
                        ELSE row \notin DOMAIN cache
              /\ SameAnswersAsBefore(c) =>
                    CachedValues(cache, c.user) = [i \in 1..2 |-> c.cleared[i].is_member]

\* the second refusal on the same answers: the access_count is 2
C15_Witness ==
    \E s \in BotSlots :
        /\ DeniedRecheck(slot[s])
        /\ SameAnswersAsBefore(slot[s])
        /\ slot[s].pc = "reply"
        /\ slot[s].out = "access required"
        /\ files[Val(slot[s].key)].access_count = 2
        /\ slot[s].files0[Val(slot[s].key)].access_count = 1

\* the deletion jobs armed for message m of chat ch
JobsFor(ch, m) == {j \in jobs : j.chat_id = ch /\ j.data = m}

\* C16, for a bot that has its job queue: when send_video / send_document
\* returned a message in a granted request (start or check_join), the request
\* has armed one deletion for (chat, message), due DELETE_AFTER after it was
\* armed, which is waiting or has made its delete_message call.
C16_DeliveryArmsDeletion ==
    \A s \in BotSlots :
        LET c == slot[s]
        IN  (job_queue /\ c.pc \in {"reply", "done"} /\ ~IsNone(c.sent)) =>
              /\ c.armed
              /\ \/ /\ Cardinality(JobsFor(c.user, Val(c.sent))) = 1
                    /\ \A j \in JobsFor(c.user, Val(c.sent)) :
                          j.due <= now + DELETE_AFTER
                 \/ <<c.user, Val(c.sent)>> \in DOMAIN hist.deletes

\* a deletion job fires in this step
JobFires == jobs' # jobs /\ jobs' \subseteq jobs

\* C17: a deletion job that fires leaves the tables alone: files (the ids and
\* every field, access_count too) and membership_cache are after the job as
\* before it, whether delete_message succeeded or raised.
C17_JobLeavesStore ==
    [][JobFires =>
          /\ Cardinality(jobs \ jobs') = 1
          /\ files' = files
          /\ cache' = cache
      ]_vars

\* the job of a delivered message has fired, and the row of the file and the
\* rows of the cache are there
C17_Witness ==
    /\ DOMAIN hist.deletes = {<<7, 1>>}
    /\ hist.deletes[<<7, 1>>].ok
    /\ jobs = {}
    /\ DOMAIN files = {<<1>>}
    /\ files[<<1>>].access_count = 1
    /\ DOMAIN cache = {<<7, CHANNEL_1>>, <<7, CHANNEL_2>>}
    /\ now = 600

\* C18: an armed deletion job makes one delete_message call at most: when it
\* fires it leaves the queue, whether the call succeeded or raised, nothing is
\* armed in its place, no message has had two calls, and what the call raised
\* stays in the job: no handler and no table is touched.
C18_JobRunsOnce ==
    [][/\ JobFires =>
            /\ \E j \in jobs :
                  /\ jobs' = jobs \ {j}
                  /\ <<j.chat_id, j.data>> \notin DOMAIN hist.deletes
                  /\ hist'.deletes = Attempt(hist.deletes, <<j.chat_id, j.data>>, TRUE)
                       \/ hist'.deletes = Attempt(hist.deletes, <<j.chat_id, j.data>>, FALSE)
            /\ slot' = slot /\ msgseq' = msgseq /\ now' = now
       /\ \A id \in DOMAIN hist'.deletes :
            /\ hist'.deletes[id].n = 1
            /\ JobsFor(id[1], id[2])' = {}
       /\ hist'.deletes # hist.deletes => JobFires
      ]_vars

\* the delete_message call of a job raised, and no job is left
C18_Witness ==
    /\ DOMAIN hist.deletes = {<<7, 1>>}
    /\ hist.deletes[<<7, 1>>] = [n |-> 1, ok |-> FALSE]
    /\ jobs = {}
    /\ msgseq = 1

\* C19: delete_file(k) returns True exactly when a row with id k was there,
\* and removes it; after it get_file(k) returns None, until a later save_file
\* returns k, and every other row is as it was; on an id that is not there it
\* returns False and changes nothing.
C19_DeleteFileRemovesOneRow ==
    [][/\ (hist'.op = "delete_file" /\ now' = now) =>
            LET k == hist'.arg
            IN  /\ Val(hist'.ret) <=> k \in DOMAIN files
                /\ DOMAIN files' = DOMAIN files \ {k}
                /\ \A x \in DOMAIN files' : files'[x] = files[x]
                /\ IsNone(GetFile(files', k).ret)
                /\ ~Val(hist'.ret) => files' = files
       /\ (hist'.op = "get_file" /\ now' = now /\ hist'.arg \notin DOMAIN files) =>
            IsNone(hist'.ret) /\ files' = files
       /\ \A k \in DOMAIN files' \ DOMAIN files :
            hist'.op = "save_file" /\ hist'.ret = Some(k)
      ]_vars

\* delete_file("1") returned True and the row of "2", looked up once, is as
\* it was
C19_Witness ==
    /\ hist.op = "delete_file"
    /\ hist.arg = <<1>>
    /\ hist.ret = Some(TRUE)
    /\ DOMAIN files = {<<2>>}
    /\ files[<<2>>].access_count = 1

\* C20: with a retention policy of 0 or less, cleanup_old_files removes no
\* row, however often it is called and whatever is called in between: the
\* table files is after each call as it was before it.
C20_DisabledCleanupKeepsFiles ==
    [][(hist'.op = "cleanup_old_files" /\ hist'.arg <= 0) => files' = files]_vars

\* cleanup_old_files has run with the policy 0 on a table that holds a row a
\* day old, looked up once
C20_Witness ==
    /\ hist.op = "cleanup_old_files"
    /\ hist.arg = 0
    /\ now = DaySeconds
    /\ \E k \in DOMAIN files : files[k].timestamp = 0 /\ files[k].access_count = 1

----------------------------------------------------------------------------
(* Properties of the admin guard *)

\* the handlers the admin alone may run
AdminCommands ==
    {"upload", "deletefile", "cleanup", "clearcache", "listfiles", "stats",
     "testchannel"}

\* a step of a handler the admin called
AdminStep ==
    \E s \in BotSlots :
        slot'[s] # slot[s] /\ ADMIN_ID \in {slot[s].user, slot'[s].user}

\* the row without its access_count
SansAccess(row) == [row EXCEPT !.access_count = 0]

\* C21: every step that is not a step of the admin's handlers (requests and
\* clicks of other users, their attempts at the admin commands, firing jobs,
\* time) leaves the ids of files and every field but access_count as they
\* were, and an attempt at an admin command returns at once and changes no
\* table, job or message.
C21_OnlyAdminChangesFiles ==
    [][~AdminStep =>
          /\ DOMAIN files' = DOMAIN files
          /\ \A k \in DOMAIN files : SansAccess(files'[k]) = SansAccess(files[k])
          /\ \A s \in BotSlots :
                (slot'[s] # slot[s] /\ slot'[s].h \in AdminCommands) =>
                    /\ slot'[s].pc = "done"
                    /\ slot'[s].out = "-"
                    /\ files' = files
                    /\ cache' = cache
                    /\ jobs' = jobs
                    /\ msgseq' = msgseq
                    /\ now' = now
      ]_vars

\* user 7 has tried deletefile on the file it had requested before; the row
\* is there, with the access_count of that request
C21_Witness ==
    \E s \in BotSlots :
        /\ slot[s].h = "deletefile"
        /\ slot[s].user = 7
        /\ slot[s].pc = "done"
        /\ slot[s].key = Some(<<1>>)
        /\ <<1>> \in DOMAIN files
        /\ files[<<1>>].access_count = 1

----------------------------------------------------------------------------
(* Properties of clear_membership_cache *)

\* C22: clear_membership_cache(user_id) with a user_id given, whatever
\* integer it is, removes the rows of that user and no other row; only the
\* call without a user_id removes every row.
C22_ClearRemovesOneUsersRows ==
    [][hist'.op = "clear_membership_cache" =>
          IF IsNone(hist'.arg)
          THEN cache' = <<>>
          ELSE /\ DOMAIN cache' = {x \in DOMAIN cache : x[1] # Val(hist'.arg)}
               /\ \A x \in DOMAIN cache' : cache'[x] = cache[x]
      ]_vars

----------------------------------------------------------------------------
(* Properties of a failed delivery *)

\* the request in c was granted, its send call raised, and it is at a reply
SendFailed(c) == c.pc = "reply" /\ c.kind # "-" /\ IsNone(c.sent)

\* the messages for a failed send
CannedSendErrors == {"too large", "expired", "cannot send here", "failed to send"}

\* C23: when send_video / send_document raises in a granted request, the
\* request goes to one reply with one of the canned messages, arms no
\* deletion and leaves files alone; after that reply, delivered or not, the
\* handler ends: it makes no further reply and no exception leaves it.
C23_SendFailureIsHandled ==
    [][\A s \in BotSlots :
          LET c == slot[s]
              d == slot'[s]
          IN  /\ (c.pc = "send" /\ d.pc = "reply") =>
                    /\ d.out \in CannedSendErrors
                    /\ ~d.armed /\ IsNone(d.sent)
                    /\ jobs' = jobs /\ files' = files /\ msgseq' = msgseq
              /\ (SendFailed(c) /\ d # c) =>
                    /\ d = IdleSlot
                    /\ jobs' = jobs /\ files' = files /\ msgseq' = msgseq
      ]_vars

----------------------------------------------------------------------------
(* Properties of access_count *)

\* C24: a start or check_join with a key whose row is found adds exactly one
\* to the access_count of that row, once for the whole request and whatever
\* the request ends with (refusal, delivery, failed send); so the access_count
\* of a row is at least the number of deliveries of that file, and no step
\* lowers it.
C24_GateRequestCountsOnce ==
    [][/\ \A s \in BotSlots :
            LET c == slot'[s]
                k == Val(c.key)
            IN  (c.h \in GateHandlers /\ ~IsNone(c.file)) =>
                  /\ k \in DOMAIN files'
                  /\ DOMAIN files' = DOMAIN c.files0
                  /\ \A x \in DOMAIN files' :
                        files'[x].access_count =
                            c.files0[x].access_count + (IF x = k THEN 1 ELSE 0)
       /\ \A k \in DOMAIN files' :
            /\ files'[k].access_count >= DictGet(hist'.sends, k, 0)
            /\ k \in DOMAIN files => files'[k].access_count >= files[k].access_count
      ]_vars

\* the second start for file "1" is refused after the first was served: the
\* access_count is 2, one delivery was made
C24_Witness ==
    \E s \in BotSlots :
        /\ slot[s].h = "start"
        /\ slot[s].pc = "reply"
        /\ slot[s].out = "access required"
        /\ slot[s].key = Some(<<1>>)
        /\ files[<<1>>].access_count = 2
        /\ DictGet(hist.sends, <<1>>, 0) = 1

\* C25: when get_file calls for the same id interleave between their SELECT
\* and their UPDATE and no row is deleted, every call's increment is kept (the
\* access_count of a row is the number of UPDATEs made on it), and the
\* access_count a call returns is the stored one right after its own UPDATE.
C25_NoAccessCountLost ==
    /\ \A k \in DOMAIN files : files[k].access_count = DictGet(hist.gets, k, 0)
    /\ \A t \in Threads :
          (thr[t].pc = "get_return" /\ ~IsNone(thr[t].ret)) =>
              Val(thr[t].ret).access_count = Val(thr[t].stored)

----------------------------------------------------------------------------
(* Properties of deletefile against the gate *)

----------------------------------------------------------------------------
(* Properties of an armed deletion *)

\* the delete_message calls made for message id so far
Attempts(d, id) == IF id \in DOMAIN d THEN d[id].n ELSE 0

\* C27: an armed deletion does not depend on the row of the file: deletefile
\* and clearcache leave the armed jobs as they are, a job leaves the queue
\* only by making its delete_message call, and a job whose delay is over can
\* fire whatever files and membership_cache hold.
C27_JobOutlivesRecord ==
    [][/\ \A j \in jobs :
            \/ j \in jobs'
            \/ Attempts(hist'.deletes, <<j.chat_id, j.data>>)
                 = Attempts(hist.deletes, <<j.chat_id, j.data>>) + 1
       /\ \A s \in BotSlots :
            (slot'[s] # slot[s] /\ slot'[s].h \in {"deletefile", "clearcache"}) =>
                jobs' = jobs
       /\ \A j \in jobs : now >= j.due => ENABLED JobRun(j, TRUE)
      ]_vars

\* message 1 delivered file "1"; the admin deleted the file while the job was
\* armed, and the job made its one delete_message call after that
C27_Witness ==
    /\ DictGet(hist.sends, <<1>>, 0) = 1
    /\ <<7, 1>> \in DOMAIN hist.fired
    /\ hist.fired[<<7, 1>>] = {<<1>>}
    /\ hist.deletes[<<7, 1>>].n = 1
    /\ DOMAIN files = {}
    /\ jobs = {}

----------------------------------------------------------------------------
(* Properties of db_lock *)

\* C28: db_lock is held exactly by a thread that is inside the transaction
\* of save_file: it is free whenever no save_file is in progress, a thread in
\* get_file never holds it, and it is released when save_file returns or
\* raises, so a lock that is taken is free again later and a save_file that
\* failed leaves the lock to the next call.
C28_LockHeldOnlyInSaveFile ==
    /\ [](\A t \in Threads :
            /\ db_lock = t <=> InSaveFile(t)
            /\ InGetFile(t) => db_lock # t)
    /\ []((\A t \in Threads : ~InSaveFile(t)) => db_lock = NoThread)
    /\ \A t \in Threads : (db_lock = t) ~> (db_lock = NoThread)

\* a save_file failed on a storage error, and the next call holds the lock
C28_Witness ==
    /\ hist.op = "save_file failed"
    /\ thr[1].pc = "idle"
    /\ thr[2].pc = "select"
    /\ db_lock = 2

----------------------------------------------------------------------------
(* Properties of a failing cache write *)

\* get_chat_member returned a status and the cache_membership call raised
StatusWriteRaised(x) == x.a.kind = "status" /\ x.w = "raised"

----------------------------------------------------------------------------
(* Properties of an enabled retention *)

\* the row k of f is older than the age limit of days at time t
TooOld(f, k, days, t) == f[k].timestamp < t - days * DaySeconds

\* the rows of f newer than the row k
Newer(f, k) == {x \in DOMAIN f : f[x].timestamp > f[k].timestamp}

\* the rows of f, other than k, that are at least as new as the row k
NotOlder(f, k) == {x \in DOMAIN f \ {k} : f[x].timestamp >= f[k].timestamp}

\* C30: with a retention of days > 0 and a maximum of n rows, one pass of
\* cleanup_old_files leaves no row older than the age limit and at most n
\* rows; every row left is among the n newest by timestamp (fewer than n rows
\* were newer) and is as it was; a row is removed only when it is older than
\* the limit or n rows no older than it are kept in its place.
C30_RetentionKeepsNewestWithinAge ==
    [][(hist'.op = "cleanup_old_files" /\ hist'.arg > 0 /\ now' = now) =>
          LET days == hist'.arg
              n == hist'.limit
          IN  /\ \A k \in DOMAIN files' :
                    /\ ~TooOld(files', k, days, now)
                    /\ k \in DOMAIN files /\ files'[k] = files[k]
                    /\ Cardinality(Newer(files, k)) < n
              /\ Cardinality(DOMAIN files') <= n
              /\ \A k \in DOMAIN files \ DOMAIN files' :
                    \/ TooOld(files, k, days, now)
                    \/ Cardinality(NotOlder(files, k) \cap DOMAIN files') >= n
      ]_vars

\* one pass removed a row by its age and another by the maximum: of three
\* rows saved a day apart the newest is left
C30_Witness ==
    /\ hist.op = "cleanup_old_files"
    /\ hist.arg = 1
    /\ hist.limit = 1
    /\ hist.before = {<<1>>, <<2>>, <<3>>}
    /\ hist.aged = {<<1>>}
    /\ DOMAIN files = {<<3>>}
    /\ files[<<3>>].timestamp = 2 * DaySeconds
    /\ now = 2 * DaySeconds

----------------------------------------------------------------------------
(* Properties of the cleanup command *)

\* the admin's cleanup command is handed to its handler in slot s
AdminCleanup(s) ==
    /\ slot[s].pc = "idle"
    /\ slot'[s].h = "cleanup"
    /\ slot'[s].user = ADMIN_ID

\* the day argument as the number the admin wrote
DayArg(c) == IF IsNone(c.args) THEN NoneV ELSE ParseInt(Val(c.args))

\* C31 as stated: cleanup with the day argument 0 is cancelled (the admin is
\* told that the files are kept and no row is deleted); with an argument d in
\* 1..365 the rows older than d days are deleted and no others.
C31_CleanupZeroCancels ==
    [][\A s \in BotSlots :
          AdminCleanup(s) =>
            LET c == slot'[s]
                d == DayArg(c)
            IN  /\ d = Some(0) =>
                      /\ c.out = "cleanup cancelled"
                      /\ files' = files
                /\ (~IsNone(d) /\ Val(d) \in 1..365) =>
                      /\ c.out = "cleanup complete"
                      /\ files' = DropOlder(files, Val(d), now)
      ]_vars

----------------------------------------------------------------------------
(* Properties of the delivery call *)

\* the name ends in a dot and one of mp4, mov, m4v, mpeg, mpg, in any case
PlayableName(name) ==
    /\ Len(name) > 1
    /\ Lower(name[Len(name)]) \in {"mp4", "mov", "m4v", "mpeg", "mpg"}

\* C32: a granted request makes one delivery call: when check_membership
\* returns all_joined in a request with a key the call starts, no call starts
\* in a request that has made one, and the call ends in the armed deletion,
\* the edit or the reply of a failed send; the call is send_video exactly when
\* the record has is_video set and a playable name, send_document otherwise,
\* in start and in check_join alike; a message comes only out of such a call.
C32_OneDeliveryCall ==
    [][/\ \A s \in BotSlots :
            LET c == slot[s]
                d == slot'[s]
            IN  /\ (d.pc = "send" /\ c.pc # "send") =>
                      /\ d.h \in GateHandlers
                      /\ c.kind = "-" /\ IsNone(c.sent)
                      /\ d.all
                      /\ d.kind = (IF Val(d.file).is_video
                                      /\ PlayableName(Val(d.file).file_name)
                                   THEN "video" ELSE "document")
                /\ (d.h \in GateHandlers /\ Checked(d) /\ ~Checked(c)
                        /\ d.all /\ ~IsNone(d.key)) => d.pc = "send"
                /\ (c.pc = "send" /\ d # c) =>
                      /\ d.pc \in {"done", "edit", "reply"}
                      /\ d.kind = c.kind
       /\ msgseq' # msgseq =>
            /\ msgseq' = msgseq + 1
            /\ \E s \in BotSlots : slot[s].pc = "send" /\ slot'[s].sent = Some(msgseq')
      ]_vars

\* the record "b.MKV", flagged as video, went out twice by send_document, the
\* second time from check_join
C32_Witness ==
    \E s \in BotSlots :
        /\ slot[s].h = "check_join"
        /\ slot[s].pc = "done"
        /\ slot[s].kind = "document"
        /\ Val(slot[s].file).is_video
        /\ Val(slot[s].file).file_name = <<"b", "MKV">>
        /\ slot[s].armed
        /\ hist.sends[Val(slot[s].key)] = 2

----------------------------------------------------------------------------
(* Properties of the status server *)

\* C33: a request to the status server (/, /health, /ping) only reads: it
\* leaves every row of files (access_count too) and of membership_cache as
\* it was, and with them the id the next save_file makes; a save_file or
\* get_file in progress on another thread keeps what it has read and the
\* lock; the count it shows is the number of rows.
C33_StatusServerOnlyReads ==
    [][hist'.served # hist.served =>
          /\ files' = files
          /\ cache' = cache
          /\ NewId(files') = NewId(files)
          /\ thr' = thr
          /\ db_lock' = db_lock
          /\ hist'.status.code = 200 =>
                hist'.status.file_count \in {0, GetFileCount(files)}
      ]_vars

\* /health was answered with one row in files while a save_file on another
\* thread was between its SELECT and its INSERT and the cache held a row
C33_Witness ==
    /\ hist.status # <<>>
    /\ hist.status.route = "/health"
    /\ hist.status.file_count = 1
    /\ \E t \in Threads : thr[t].pc = "insert" /\ thr[t].new_id = <<2>>
    /\ DOMAIN files = {<<1>>}
    /\ files[<<1>>].access_count = 1
    /\ cache # <<>>

====
